---- MODULE Spec2Model ----
(***************************************************************************)
(* Model of the persona pipeline orchestrator of packages/agents:          *)
(* createPersona and createPersonaQuick (pipeline.ts), the three stage     *)
(* functions runInterviewAgent, runResearchAgent, runArchitectAgent and    *)
(* generateInitialGreeting, with the progress sink as an environment that  *)
(* may return or raise.                                                    *)
(*                                                                         *)
(* Every variable is indexed by invocation: each invocation has its own    *)
(* activation record (locals, program counter) and its own sink.           *)
(***************************************************************************)
EXTENDS Integers, Sequences, FiniteSets, TLC

\* ------------------------------------------------------------------ bounds
NumInvocations == 2
MaxMsgLen == 2
NumOutputs == 2
MaxTextLen == 2
MaxMembers == 2
MaxWords == 2
NumSecrets == 2
MaxChunkText == 4
MaxLimit == 3

Inv == 1..NumInvocations

\* ---------------------------------------------------------------- messages
\* An error message is a sequence of tokens; String.includes(w) is "some
\* token equals w".  "interview" is there to exercise case sensitivity.
Tokens == {"Interview", "Research", "interview"}

Messages == UNION {[1..n -> Tokens] : n \in 0..MaxMsgLen}

Includes(msg, w) == \E i \in DOMAIN msg : msg[i] = w

\* A thrown value: an Error with a message, or any other value (isError
\* FALSE, message then holds its payload, e.g. a thrown string).  `origin` is
\* the function that was executing when it was raised, `by` tells whether a
\* call of the pipeline or the progress sink raised it.
NoError == [isError |-> FALSE, message |-> <<>>, origin |-> "none", by |-> "none"]

CallError(m, o) == [isError |-> TRUE, message |-> m, origin |-> o, by |-> "call"]

\* What a sink may raise: an Error or another value, with or without one of
\* the tokens (longer messages are exercised by the failing calls).
SinkMessages == {m \in Messages : Len(m) <= 1}

SinkThrown(o) ==
  {[isError |-> b, message |-> m, origin |-> o, by |-> "sink"] :
     b \in BOOLEAN, m \in SinkMessages}

\* ----------------------------------------------------------------- outputs
\* A stage output: which schema it belongs to, an identity, whether it has
\* the shape its schema requires, and whether the architect's enhancement
\* has been applied.
NoData == [kind |-> "none", id |-> 0, shapeOk |-> FALSE, enhanced |-> FALSE]

Value(k, i, ok) == [kind |-> k, id |-> i, shapeOk |-> ok, enhanced |-> FALSE]

\* What chat() resolves to: text from which extractJson can or cannot
\* recover a value.
NoResponse == [recoverable |-> FALSE, value |-> NoData]

Responses(k) ==
  {[recoverable |-> FALSE, value |-> NoData]} \cup
  {[recoverable |-> TRUE, value |-> Value(k, i, ok)] :
     i \in 1..NumOutputs, ok \in BOOLEAN}

\* The fixed research placeholder of createPersonaQuick; `content` holds the
\* fields of the object literal (lists and maps as sequences / functions).
ToBeDiscovered == "To be discovered through conversation"

PlaceholderContent ==
  [factualGrounding |-> [timelineEvents |-> <<>>,
                         realisticOutcomes |-> <<>>,
                         statisticalContext |-> <<>>],
   voiceCues |-> [vocabulary |-> <<>>,
                  speechPatterns |-> "Natural, conversational",
                  emotionalExpression |-> "Open and reflective"],
   worldDetails |-> [dailyLife |-> ToBeDiscovered,
                     relationships |-> ToBeDiscovered,
                     environment |-> ToBeDiscovered],
   authenticityAnchors |-> <<>>]

\* Variant: an example anchor left in the placeholder.
PlaceholderResearch_WithAnchor ==
  [kind |-> "research", id |-> 0, shapeOk |-> TRUE, enhanced |-> FALSE,
   content |-> [PlaceholderContent EXCEPT !.authenticityAnchors = <<"example">>]]

PlaceholderResearch ==
  [kind |-> "research", id |-> 0, shapeOk |-> TRUE, enhanced |-> FALSE,
   content |-> PlaceholderContent]

\* The display fields the result takes from the persona output; the
\* enhancement rewrites fullPrompt and keeps name and summary.
FullPromptOf(persona) == <<"fullPrompt", persona.id, persona.enhanced>>

SummaryOf(persona) == <<"summary", persona.id>>

NameOf(persona) == <<"name", persona.id>>

ResultRecord(iv, rs, ps, g) ==
  [interviewOutput |-> iv, researchOutput |-> rs, personaOutput |-> ps,
   personaPrompt |-> FullPromptOf(ps), summary |-> SummaryOf(ps), name |-> NameOf(ps),
   initialGreeting |-> g]

NoResult ==
  [interviewOutput |-> NoData, researchOutput |-> NoData, personaOutput |-> NoData,
   personaPrompt |-> <<>>, summary |-> <<>>, name |-> <<>>, initialGreeting |-> 0]

\* =========================================================== JSON recovery
\* extractJson and its helpers (openrouter.ts).  A text is a sequence of
\* characters; a character is a one-character string, or a name for a
\* character that has no ASCII spelling.
DQ == "\""
BS == "\\"
NL == "\n"
CR == "\r"
TAB == "\t"
BT == "U+0060"
LSQ == "U+2018"
RSQ == "U+2019"
LDQ == "U+201C"
RDQ == "U+201D"
EMDASH == "U+2014"
ENDASH == "U+2013"
ELLIPSIS == "U+2026"
U0001 == "U+0001"
BSP == "U+0008"
FF == "U+000C"
ZWSP == "U+200B"

\* [\u0000-\u001F]
ControlChars == {U0001, BSP, FF, NL, CR, TAB}

\* whitespace of the JSON grammar; the texts of the model hold no other
\* character that \s or trim() treat as whitespace
WS == {" ", NL, CR, TAB}

Digits == {"0", "1", "2", "3", "4", "5", "6", "7", "8", "9"}

HexDigits == Digits \cup {"a", "b", "c", "d", "e", "f", "A", "B", "C", "D", "E", "F"}

Min(S) == CHOOSE x \in S : \A y \in S : x <= y

Max(S) == CHOOSE x \in S : \A y \in S : x >= y

\* t.slice(a, b) with 1-based inclusive positions
Slice(t, a, b) == IF a > b THEN <<>> ELSE SubSeq(t, a, b)

\* String.prototype.replace(/[class]/g, f): every character replaced by f[c]
RECURSIVE ReplaceEach(_, _, _)
ReplaceEach(t, class, to) ==
  IF t = <<>> THEN <<>>
  ELSE IF Len(t) = 1 THEN (IF t[1] \in class THEN to ELSE t)
  ELSE LET h == Len(t) \div 2
       IN ReplaceEach(SubSeq(t, 1, h), class, to)
            \o ReplaceEach(SubSeq(t, h + 1, Len(t)), class, to)

\* Variant: the en dash is turned into an em dash.
Sanitize_EnDashToEmDash(t) ==
  LET s1 == ReplaceEach(t, {LSQ, RSQ}, <<"'">>)
      s2 == ReplaceEach(s1, {LDQ, RDQ}, <<DQ>>)
      s3 == ReplaceEach(s2, {EMDASH}, <<"-">>)
      s4 == ReplaceEach(s3, {ENDASH}, <<EMDASH>>)
      s5 == ReplaceEach(s4, {ELLIPSIS}, <<".", ".", ".">>)
  IN ReplaceEach(s5, ControlChars \ {NL, CR, TAB}, <<>>)

\* the pre-sanitize chain of replace calls, in the order of the code
Sanitize(t) ==
  LET s1 == ReplaceEach(t, {LSQ, RSQ}, <<"'">>)
      s2 == ReplaceEach(s1, {LDQ, RDQ}, <<DQ>>)
      s3 == ReplaceEach(s2, {EMDASH}, <<"-">>)
      s4 == ReplaceEach(s3, {ENDASH}, <<"-">>)
      s5 == ReplaceEach(s4, {ELLIPSIS}, <<".", ".", ".">>)
  IN ReplaceEach(s5, ControlChars \ {NL, CR, TAB}, <<>>)

\* first position >= i that holds no whitespace (Len(t) + 1 when none)
SkipWs(t, i) == Min({j \in i..(Len(t) + 1) : j = Len(t) + 1 \/ t[j] \notin WS})

\* String.prototype.trim / trimStart
TrimStart(t) == Slice(t, SkipWs(t, 1), Len(t))

Trim(t) ==
  LET a == SkipWs(t, 1)
      b == Max({j \in 0..Len(t) : j = 0 \/ t[j] \notin WS})
  IN Slice(t, a, b)

StartsWith(t, w) == Len(t) >= Len(w) /\ SubSeq(t, 1, Len(w)) = w

At(t, i, w) == i >= 1 /\ i + Len(w) - 1 <= Len(t) /\ SubSeq(t, i, i + Len(w) - 1) = w

\* ---------------------------------------------------------------- JSON.parse
\* The value is kept in canonical spelling (no whitespace, strings with "
\* and \ escaped, a repeated key keeping its last value), so that two texts
\* have the same value exactly when the spellings are equal.
ParseFail == [ok |-> FALSE, val |-> <<>>, next |-> 0]

DigitsEnd(t, j) == Min({k \in j..(Len(t) + 1) : k = Len(t) + 1 \/ t[k] \notin Digits})

ParseNumber(t, i) ==
  LET j0 == IF t[i] = "-" THEN i + 1 ELSE i
      intEnd == IF j0 > Len(t) \/ t[j0] \notin Digits THEN 0
                ELSE IF t[j0] = "0" THEN j0 + 1 ELSE DigitsEnd(t, j0)
      fracEnd == IF intEnd = 0 THEN 0
                 ELSE IF intEnd <= Len(t) /\ t[intEnd] = "."
                      THEN (IF DigitsEnd(t, intEnd + 1) > intEnd + 1
                            THEN DigitsEnd(t, intEnd + 1) ELSE 0)
                      ELSE intEnd
      expStart == IF fracEnd # 0 /\ fracEnd <= Len(t) /\ t[fracEnd] \in {"e", "E"}
                  THEN (IF fracEnd + 1 <= Len(t) /\ t[fracEnd + 1] \in {"+", "-"}
                        THEN fracEnd + 2 ELSE fracEnd + 1)
                  ELSE 0
      end == IF fracEnd = 0 THEN 0
             ELSE IF expStart = 0 THEN fracEnd
             ELSE IF DigitsEnd(t, expStart) > expStart THEN DigitsEnd(t, expStart) ELSE 0
  IN IF end = 0 THEN ParseFail
     ELSE [ok |-> TRUE, val |-> SubSeq(t, i, end - 1), next |-> end]

Unescape(e) ==
  CASE e = DQ -> <<BS, DQ>>
    [] e = BS -> <<BS, BS>>
    [] e = "/" -> <<"/">>
    [] e = "b" -> <<BSP>>
    [] e = "f" -> <<FF>>
    [] e = "n" -> <<NL>>
    [] e = "r" -> <<CR>>
    [] e = "t" -> <<TAB>>

\* the characters of a string literal from position j on (after the opening
\* quote); acc is the content read so far
RECURSIVE ParseStringBody(_, _, _)
ParseStringBody(t, j, acc) ==
  IF j > Len(t) THEN ParseFail
  ELSE IF t[j] = DQ THEN [ok |-> TRUE, val |-> <<DQ>> \o acc \o <<DQ>>, next |-> j + 1]
  ELSE IF t[j] = BS
       THEN IF j + 1 > Len(t) THEN ParseFail
            ELSE IF t[j + 1] \in {DQ, BS, "/", "b", "f", "n", "r", "t"}
                 THEN ParseStringBody(t, j + 2, acc \o Unescape(t[j + 1]))
            ELSE IF /\ t[j + 1] = "u" /\ j + 5 <= Len(t)
                    /\ \A k \in (j + 2)..(j + 5) : t[k] \in HexDigits
                 THEN ParseStringBody(t, j + 6, acc \o SubSeq(t, j, j + 5))
            ELSE ParseFail
  ELSE IF t[j] \in ControlChars THEN ParseFail
  ELSE ParseStringBody(t, j + 1, Append(acc, t[j]))

\* members of an object as <<key, value>> pairs; a repeated key keeps its
\* place and takes the later value
PutMember(ms, k, v) ==
  IF \E n \in DOMAIN ms : ms[n][1] = k
  THEN [n \in DOMAIN ms |-> IF ms[n][1] = k THEN <<k, v>> ELSE ms[n]]
  ELSE Append(ms, <<k, v>>)

RECURSIVE SpellMembers(_)
SpellMembers(ms) ==
  IF ms = <<>> THEN <<>>
  ELSE ms[1][1] \o <<":">> \o ms[1][2]
       \o (IF Len(ms) > 1 THEN <<",">> ELSE <<>>) \o SpellMembers(Tail(ms))

RECURSIVE ParseValue(_, _), ParseElements(_, _, _), ParseMembers(_, _, _)
RECURSIVE AfterElement(_, _, _), AfterKey(_, _, _), AfterMember(_, _, _, _)
\* t[i] is the first character of the value
ParseValue(t, i) ==
  IF i > Len(t) THEN ParseFail
  ELSE IF t[i] = DQ THEN ParseStringBody(t, i + 1, <<>>)
  ELSE IF t[i] = "-" \/ t[i] \in Digits THEN ParseNumber(t, i)
  ELSE IF At(t, i, <<"t", "r", "u", "e">>)
       THEN [ok |-> TRUE, val |-> <<"t", "r", "u", "e">>, next |-> i + 4]
  ELSE IF At(t, i, <<"f", "a", "l", "s", "e">>)
       THEN [ok |-> TRUE, val |-> <<"f", "a", "l", "s", "e">>, next |-> i + 5]
  ELSE IF At(t, i, <<"n", "u", "l", "l">>)
       THEN [ok |-> TRUE, val |-> <<"n", "u", "l", "l">>, next |-> i + 4]
  ELSE IF t[i] = "["
       THEN LET j == SkipWs(t, i + 1)
            IN IF j <= Len(t) /\ t[j] = "]"
               THEN [ok |-> TRUE, val |-> <<"[", "]">>, next |-> j + 1]
               ELSE ParseElements(t, j, <<"[">>)
  ELSE IF t[i] = "{"
       THEN LET j == SkipWs(t, i + 1)
            IN IF j <= Len(t) /\ t[j] = "}"
               THEN [ok |-> TRUE, val |-> <<"{", "}">>, next |-> j + 1]
               ELSE ParseMembers(t, j, <<>>)
  ELSE ParseFail

\* the elements of an array from position j on; acc is the spelling so far
ParseElements(t, j, acc) == AfterElement(t, acc, ParseValue(t, j))

\* the array after its element v: a comma and more elements, or the end
AfterElement(t, acc, v) ==
  LET k == IF v.ok THEN SkipWs(t, v.next) ELSE 0
  IN IF ~v.ok \/ k > Len(t) THEN ParseFail
     ELSE IF t[k] = "," THEN ParseElements(t, SkipWs(t, k + 1), acc \o v.val \o <<",">>)
     ELSE IF t[k] = "]" THEN [ok |-> TRUE, val |-> acc \o v.val \o <<"]">>, next |-> k + 1]
     ELSE ParseFail

\* the members of an object from position j on; ms holds the members so far
ParseMembers(t, j, ms) ==
  IF j > Len(t) \/ t[j] # DQ THEN ParseFail
  ELSE AfterKey(t, ms, ParseStringBody(t, j + 1, <<>>))

\* the object after the key of a member: a colon and the member's value
AfterKey(t, ms, key) ==
  LET c == IF key.ok THEN SkipWs(t, key.next) ELSE 0
  IN IF key.ok /\ c <= Len(t) /\ t[c] = ":"
     THEN AfterMember(t, ms, key, ParseValue(t, SkipWs(t, c + 1)))
     ELSE ParseFail

\* the object after the value v of a member: a comma and more members, or
\* the end
AfterMember(t, ms, key, v) ==
  LET k == IF v.ok THEN SkipWs(t, v.next) ELSE 0
  IN IF ~v.ok \/ k > Len(t) THEN ParseFail
     ELSE IF t[k] = ","
          THEN ParseMembers(t, SkipWs(t, k + 1), PutMember(ms, key.val, v.val))
     ELSE IF t[k] = "}"
          THEN [ok |-> TRUE,
                val |-> <<"{">> \o SpellMembers(PutMember(ms, key.val, v.val)) \o <<"}">>,
                next |-> k + 1]
     ELSE ParseFail

\* the whole text is one value and whitespace
WholeText(t, v) ==
  IF v.ok /\ SkipWs(t, v.next) = Len(t) + 1
  THEN [ok |-> TRUE, val |-> v.val]
  ELSE [ok |-> FALSE, val |-> <<>>]

\* JSON.parse(t): the value, or a SyntaxError
JsonParse(t) == WholeText(t, ParseValue(t, SkipWs(t, 1)))

\* ------------------------------------------------------ strategies 2 and 3
FenceMark == <<BT, BT, BT>>

\* sanitized.match(/```(?:json)?\s*([\s\S]*?)```/): the text between the
\* first fence mark (and an optional "json") and the next fence mark
FenceMatch(t) ==
  LET opens == {i \in 1..Len(t) : At(t, i, FenceMark)}
  IN IF opens = {} THEN [ok |-> FALSE, inner |-> <<>>]
     ELSE LET o == Min(opens)
              s == IF At(t, o + 3, <<"j", "s", "o", "n">>) THEN o + 7 ELSE o + 3
              closes == {k \in s..Len(t) : At(t, k, FenceMark)}
          IN IF closes = {} THEN [ok |-> FALSE, inner |-> <<>>]
             ELSE [ok |-> TRUE, inner |-> Slice(t, s, Min(closes) - 1)]

\* indexOf / lastIndexOf, 0 for "not found"
IndexOf(t, c) ==
  IF \E i \in 1..Len(t) : t[i] = c THEN Min({i \in 1..Len(t) : t[i] = c}) ELSE 0

LastIndexOf(t, c) ==
  IF \E i \in 1..Len(t) : t[i] = c THEN Max({i \in 1..Len(t) : t[i] = c}) ELSE 0

FirstBrace(t) == IndexOf(t, "{")

\* Variant: the candidate ends at the first closing brace.
LastBrace_First(t) == IndexOf(t, "}")

LastBrace(t) == LastIndexOf(t, "}")

\* text.slice(0, 300) of the "No valid JSON object found" message
PreviewLen == 300

Preview(t) == Slice(t, 1, IF Len(t) < PreviewLen THEN Len(t) ELSE PreviewLen)

\* Variant: the preview is taken from the sanitized text.
NoJsonError_SanitizedPreview(t) ==
  [kind |-> "No valid JSON object found", preview |-> Preview(Sanitize(t))]

NoJsonError(t) == [kind |-> "No valid JSON object found", preview |-> Preview(t)]

AllStrategiesError(js) == [kind |-> "Failed to parse JSON after all strategies", preview |-> js]

NoThrow == [kind |-> "none", preview |-> <<>>]

\* ------------------------------------------------------ fixCommonJsonIssues
\* replace(/,(\s*[}\]])/g, '$1')
RECURSIVE RemoveTrailingCommas(_, _)
RemoveTrailingCommas(t, i) ==
  IF i > Len(t) THEN <<>>
  ELSE LET j == SkipWs(t, i + 1)
           drop == t[i] = "," /\ j <= Len(t) /\ t[j] \in {"}", "]"}
       IN (IF drop THEN <<>> ELSE <<t[i]>>) \o RemoveTrailingCommas(t, i + 1)

NextQuote(t, j) ==
  IF \E k \in (j + 1)..Len(t) : t[k] = "'"
  THEN Min({k \in (j + 1)..Len(t) : t[k] = "'"}) ELSE 0

NoMatch == [ok |-> FALSE, out |-> <<>>, end |-> 0]

\* a match of one of the four single-quote patterns starting at position i
MatchAt(rule, t, i) ==
  LET j == SkipWs(t, i + 1)
  IN CASE rule = "colonQuoted" ->
            IF t[i] = ":" /\ j <= Len(t) /\ t[j] = "'" /\ NextQuote(t, j) # 0
            THEN [ok |-> TRUE, end |-> NextQuote(t, j),
                  out |-> <<":", " ", DQ>> \o Slice(t, j + 1, NextQuote(t, j) - 1) \o <<DQ>>]
            ELSE NoMatch
       [] rule = "bracketQuoted" ->
            IF t[i] = "[" /\ j <= Len(t) /\ t[j] = "'" /\ NextQuote(t, j) # 0
            THEN [ok |-> TRUE, end |-> NextQuote(t, j),
                  out |-> <<"[", DQ>> \o Slice(t, j + 1, NextQuote(t, j) - 1) \o <<DQ>>]
            ELSE NoMatch
       [] rule = "quoteCommaQuote" ->
            LET k == SkipWs(t, i + 2)
            IN IF /\ t[i] = "'" /\ i + 1 <= Len(t) /\ t[i + 1] = ","
                  /\ k <= Len(t) /\ t[k] = "'"
               THEN [ok |-> TRUE, end |-> k, out |-> <<DQ, ",", " ", DQ>>]
               ELSE NoMatch
       [] rule = "quoteBracket" ->
            IF t[i] = "'" /\ j <= Len(t) /\ t[j] = "]"
            THEN [ok |-> TRUE, end |-> j, out |-> <<DQ, "]">>]
            ELSE NoMatch

\* replace(pattern, replacement) with the g flag: leftmost matches, not
\* overlapping
RECURSIVE Rewrite(_, _, _)
Rewrite(rule, t, i) ==
  IF i > Len(t) THEN <<>>
  ELSE LET m == MatchAt(rule, t, i)
       IN IF m.ok THEN m.out \o Rewrite(rule, t, m.end + 1)
          ELSE <<t[i]>> \o Rewrite(rule, t, i + 1)

fixCommonJsonIssues(json) ==
  LET f1 == RemoveTrailingCommas(json, 1)
      f2 == ReplaceEach(f1, {ZWSP}, <<>>)
      f3 == Rewrite("colonQuoted", f2, 1)
      f4 == Rewrite("bracketQuoted", f3, 1)
      f5 == Rewrite("quoteCommaQuote", f4, 1)
  IN Rewrite("quoteBracket", f5, 1)

\* ------------------------------------------------------- aggressiveJsonFix
\* The loop state: position i (1-based), inString, result.
ScanStart == [i |-> 1, inString |-> FALSE, result |-> <<>>]

\* the look-ahead at a quote met inside a string
\* Variant: a colon does not end the string.
EndsString_NoColon(json, i) ==
  LET afterQuote == TrimStart(Slice(json, i + 1, Len(json)))
  IN afterQuote = <<>> \/ Head(afterQuote) \in {",", "}", "]"}

EndsString(json, i) ==
  LET afterQuote == TrimStart(Slice(json, i + 1, Len(json)))
  IN afterQuote = <<>> \/ Head(afterQuote) \in {",", "}", "]", ":"}

\* one iteration of the while loop
ScanStep(json, s) ==
  LET c == json[s.i]
  IN IF ~s.inString
     THEN [i |-> s.i + 1, inString |-> (c = DQ), result |-> Append(s.result, c)]
     ELSE IF c = BS /\ s.i + 1 <= Len(json)
     THEN [i |-> s.i + 2, inString |-> TRUE, result |-> s.result \o <<c, json[s.i + 1]>>]
     ELSE IF c = DQ
     THEN IF EndsString(json, s.i)
          THEN [i |-> s.i + 1, inString |-> FALSE, result |-> Append(s.result, c)]
          ELSE [i |-> s.i + 1, inString |-> TRUE, result |-> s.result \o <<BS, c>>]
     ELSE IF c = NL
     THEN [i |-> s.i + 1, inString |-> TRUE, result |-> s.result \o <<BS, "n">>]
     ELSE IF c = CR
     THEN [i |-> s.i + 1, inString |-> TRUE, result |-> s.result \o <<BS, "r">>]
     ELSE IF c = TAB
     THEN [i |-> s.i + 1, inString |-> TRUE, result |-> s.result \o <<BS, "t">>]
     ELSE [i |-> s.i + 1, inString |-> TRUE, result |-> Append(s.result, c)]

\* ------------------------------------------------------------- input texts
Str(s) == <<DQ>> \o s \o <<DQ>>

RECURSIVE Join(_, _)
Join(parts, sep) ==
  IF parts = <<>> THEN <<>>
  ELSE IF Len(parts) = 1 THEN parts[1]
  ELSE parts[1] \o sep \o Join(Tail(parts), sep)

\* short texts over the characters the sanitize step and the brace search
\* look at
FreeChars ==
  {LSQ, RSQ, LDQ, RDQ, EMDASH, ENDASH, ELLIPSIS, U0001, NL, TAB, DQ, "'", "-", ".",
   "1", "{", "}", "x"}

FreeTexts == UNION {[1..n -> FreeChars] : n \in 0..MaxTextLen}

\* well-formed JSON texts: atoms, and arrays and objects of atoms
Atoms ==
  { <<"1">>, <<"n", "u", "l", "l">>, Str(<<"x">>), Str(<<"x", EMDASH, "y">>),
    Str(<<LDQ, "h", "i", RDQ>>), Str(<<",", "}">>) }

Keys == <<"a", "b", "c", "d">>

ArrayOf(f) == <<"[">> \o Join(f, <<",">>) \o <<"]">>

ObjectOf(f) ==
  <<"{">> \o Join([i \in DOMAIN f |-> Str(<<Keys[i]>>) \o <<":">> \o f[i]], <<",">>) \o <<"}">>

AtomLists == UNION {[1..n -> Atoms] : n \in 0..MaxMembers}

ContainerTexts == {ArrayOf(f) : f \in AtomLists} \cup {ObjectOf(f) : f \in AtomLists}

WellFormedTexts == Atoms \cup ContainerTexts \cup {<<" ">> \o a \o <<NL>> : a \in Atoms}

\* a comma (and a comma followed by a space) put before the last closer
TrailingCommaTexts ==
  UNION {{SubSeq(w, 1, Len(w) - 1) \o <<",", w[Len(w)]>>,
          SubSeq(w, 1, Len(w) - 1) \o <<",", " ", w[Len(w)]>>} : w \in ContainerTexts}

\* {"a": 1, "b": [1,2,],}
TrailingCommaExample ==
  <<"{">> \o Str(<<"a">>) \o <<":", " ", "1", ",", " ">> \o Str(<<"b">>)
    \o <<":", " ", "[", "1", ",", "2", ",", "]", ",", "}">>

\* {"a": 1, "b": [1,2]}
TrailingCommaExampleFixed ==
  <<"{">> \o Str(<<"a">>) \o <<":", " ", "1", ",", " ">> \o Str(<<"b">>)
    \o <<":", " ", "[", "1", ",", "2", "]", "}">>

\* {"k": "<content>"} with quotes, commas, colons and blanks in the content
QuoteChars == {"h", DQ, ",", ":", " "}

UnescapedQuoteTexts ==
  {<<"{">> \o Str(<<"k">>) \o <<":", " ", DQ>> \o c \o <<DQ, "}">> :
     c \in UNION {[1..n -> QuoteChars] : n \in 0..MaxTextLen}}

\* {"note": "she said "hi" to me"}
SheSaid == <<"s", "h", "e", " ", "s", "a", "i", "d", " ">>

ToMe == <<" ", "t", "o", " ", "m", "e">>

UnescapedQuoteExample ==
  <<"{">> \o Str(<<"n", "o", "t", "e">>) \o <<":", " ">>
    \o Str(SheSaid \o Str(<<"h", "i">>) \o ToMe) \o <<"}">>

\* {"note":"she said \"hi\" to me"}, the value with the quotes as content
UnescapedQuoteExampleValue ==
  <<"{">> \o Str(<<"n", "o", "t", "e">>) \o <<":">>
    \o Str(SheSaid \o <<BS, DQ, "h", "i", BS, DQ>> \o ToMe) \o <<"}">>

\* two objects side by side, as <<first, separator, second>>
SiblingObjects == {ObjectOf(f) : f \in UNION {[1..n -> Atoms] : n \in 0..1}}

Separators == {<<>>, <<" ">>, <<",">>, <<" ", "e", "x", "t", "r", "a", " ">>}

\* {"a":1} extra {"b":2}
SiblingExampleParts ==
  << ObjectOf(<< <<"1">> >>), <<" ", "e", "x", "t", "r", "a", " ">>,
     <<"{">> \o Str(<<"b">>) \o <<":", "2", "}">> >>

SiblingParts ==
  (SiblingObjects \X Separators \X SiblingObjects) \cup {SiblingExampleParts}

SiblingTexts == {tr[1] \o tr[2] \o tr[3] : tr \in SiblingParts}

SiblingExample == SiblingExampleParts[1] \o SiblingExampleParts[2] \o SiblingExampleParts[3]

\* objects whose first value is a double-quoted string with single quotes in
\* it and whose second value is delimited by single quotes
ApostropheStrings ==
  {Str(<<"i", "t", "'", "s">>), Str(<<"x", ":", " ", "'", "y", "'">>),
   Str(<<"[", "'", "y", "'", "]">>)}

SingleQuoted(s) == <<"'">> \o s \o <<"'">>

SingleQuotedValues == {SingleQuoted(<<"z">>), ArrayOf(<<SingleQuoted(<<"y">>), SingleQuoted(<<"z">>)>>)}

SingleQuoteTexts == {ObjectOf(<<v, w>>) : v \in ApostropheStrings, w \in SingleQuotedValues}

\* {"a":"x: 'y'","b":'z'}
QuotedColonExample == ObjectOf(<<Str(<<"x", ":", " ", "'", "y", "'">>), SingleQuoted(<<"z">>)>>)

\* fenced blocks, with and without the json tag, closed and not closed
FencedInner == {<<"1">>, <<"[", "1", "]">>, ObjectOf(<< <<"1">> >>), <<"x">>}

FencedTexts ==
  UNION {{pre \o FenceMark \o tag \o <<NL>> \o w \o <<NL>> \o FenceMark \o post,
          pre \o FenceMark \o tag \o <<NL>> \o w} :
            pre \in {<<>>, <<"x", " ">>}, tag \in {<<>>, <<"j", "s", "o", "n">>},
            w \in FencedInner, post \in {<<>>, <<" ">> \o ObjectOf(<< <<"2">> >>)}}

\* prose longer than the preview
LongProse == [i \in 1..(PreviewLen + 1) |-> "x"]

Texts ==
  FreeTexts \cup WellFormedTexts \cup TrailingCommaTexts \cup UnescapedQuoteTexts
    \cup SiblingTexts \cup SingleQuoteTexts \cup FencedTexts
    \cup {TrailingCommaExample, UnescapedQuoteExample, SiblingExample, LongProse}

\* ========================================================= stage schemas
\* InterviewOutputSchema, ResearchOutputSchema, PersonaOutputSchema (zod).
\* A field value is absent (undefined), a string (a text of words) or a
\* value of another type; the fields without an enumeration are summed up
\* in restOk (present and of the declared type).
Absent == [kind |-> "absent", text |-> <<>>]

NonString == [kind |-> "number", text |-> <<>>]

StringOf(t) == [kind |-> "string", text |-> t]

\* the lists of the transforms, in the order the loops go through them
StakesLevels == <<"life-defining", "high", "medium", "low">>

Archetypes ==
  <<"RECKONING", "ESCAPE_FANTASY", "CLOSURE_QUEST", "IDENTITY_CRISIS", "DECISION_REHEARSAL">>

AttachmentStyles == <<"secure", "anxious", "avoidant", "disorganized">>

TraitLevels == {"high", "moderate", "low"}

Traits == {"extraversion", "agreeableness", "conscientiousness", "neuroticism", "openness"}

\* the words of the texts of the model, with toLowerCase / toUpperCase
StakesWords == {"Highly", "low", "unsure"}

ArchetypeWords == {"Reckoning", "CLOSURE_QUEST", "unsure"}

StyleWords == {"insecure", "Avoidant", "unsure"}

TraitWords == {"high", "moderate", "HIGH"}

toLowerCase(w) ==
  CASE w = "Highly" -> "highly"
    [] w = "Reckoning" -> "reckoning"
    [] w = "CLOSURE_QUEST" -> "closure_quest"
    [] w = "Avoidant" -> "avoidant"
    [] w = "HIGH" -> "high"
    [] OTHER -> w

toUpperCase(w) ==
  CASE w = "Highly" -> "HIGHLY"
    [] w = "Reckoning" -> "RECKONING"
    [] w = "low" -> "LOW"
    [] w = "unsure" -> "UNSURE"
    [] w = "insecure" -> "INSECURE"
    [] w = "Avoidant" -> "AVOIDANT"
    [] w = "high" -> "HIGH"
    [] w = "moderate" -> "MODERATE"
    [] OTHER -> w

\* key is a substring of word (the keys hold no blank, so a key lies within
\* one word of a text)
WordIncludes(word, key) ==
  \/ word = key
  \/ <<word, key>> \in {<<"highly", "high">>, <<"insecure", "secure">>}

TextIncludes(t, key) == \E i \in DOMAIN t : WordIncludes(t[i], key)

\* for (const k of keys) if (folded.includes(k)) return k
FirstIncluded(keys, folded) ==
  LET hits == {n \in DOMAIN keys : TextIncludes(folded, keys[n])}
  IN IF hits = {} THEN "" ELSE keys[Min(hits)]

FieldOk(v) == [ok |-> TRUE, out |-> v]

FieldReject == [ok |-> FALSE, out |-> Absent]

\* Variant: the fallback of stakesLevel is 'low'.
StakesLevelField_DefaultLow(v) ==
  IF v.kind = "absent" THEN FieldOk(Absent)
  ELSE IF v.kind # "string" THEN FieldReject
  ELSE IF v.text = <<>> THEN FieldOk(Absent)
  ELSE LET level == FirstIncluded(StakesLevels, [i \in DOMAIN v.text |-> toLowerCase(v.text[i])])
       IN FieldOk(StringOf(<<IF level = "" THEN "low" ELSE level>>))

\* forkPoint.stakesLevel: z.string().optional().transform(...)
StakesLevelField(v) ==
  IF v.kind = "absent" THEN FieldOk(Absent)
  ELSE IF v.kind # "string" THEN FieldReject
  ELSE IF v.text = <<>> THEN FieldOk(Absent)
  ELSE LET level == FirstIncluded(StakesLevels, [i \in DOMAIN v.text |-> toLowerCase(v.text[i])])
       IN FieldOk(StringOf(<<IF level = "" THEN "medium" ELSE level>>))

\* psychologicalPattern.archetype: z.string().transform(...)
ArchetypeField(v) ==
  IF v.kind # "string" THEN FieldReject
  ELSE LET arch == FirstIncluded(Archetypes, [i \in DOMAIN v.text |-> toUpperCase(v.text[i])])
       IN FieldOk(StringOf(<<IF arch = "" THEN "RECKONING" ELSE arch>>))

\* userProfile.attachmentStyle: z.string().optional().transform(...)
AttachmentStyleField(v) ==
  IF v.kind = "absent" THEN FieldOk(Absent)
  ELSE IF v.kind # "string" THEN FieldReject
  ELSE IF v.text = <<>> THEN FieldOk(Absent)
  ELSE LET style == FirstIncluded(AttachmentStyles,
                                  [i \in DOMAIN v.text |-> toLowerCase(v.text[i])])
       IN FieldOk(IF style = "" THEN Absent ELSE StringOf(<<style>>))

\* z.enum(['high', 'moderate', 'low'])
TraitField(v) ==
  IF v.kind = "string" /\ Len(v.text) = 1 /\ v.text[1] \in TraitLevels
  THEN FieldOk(v) ELSE FieldReject

NoPersonality == [tr \in Traits |-> Absent]

NoCandidate ==
  [schema |-> "none", restOk |-> FALSE, stakesLevel |-> Absent, hasPattern |-> FALSE,
   archetype |-> Absent, attachmentStyle |-> Absent, hasPersonality |-> FALSE,
   personality |-> NoPersonality]

Rejected == [ok |-> FALSE, value |-> NoCandidate]

InterviewOutputSchema(c) ==
  LET stakes == StakesLevelField(c.stakesLevel)
      arch == IF c.hasPattern THEN ArchetypeField(c.archetype) ELSE FieldOk(Absent)
      style == AttachmentStyleField(c.attachmentStyle)
  IN IF c.restOk /\ stakes.ok /\ arch.ok /\ style.ok
     THEN [ok |-> TRUE,
           value |-> [c EXCEPT !.stakesLevel = stakes.out, !.archetype = arch.out,
                               !.attachmentStyle = style.out]]
     ELSE Rejected

ResearchOutputSchema(c) == IF c.restOk THEN [ok |-> TRUE, value |-> c] ELSE Rejected

PersonaOutputSchema(c) ==
  IF c.restOk /\ (c.hasPersonality => \A tr \in Traits : TraitField(c.personality[tr]).ok)
  THEN [ok |-> TRUE, value |-> c]
  ELSE Rejected

\* candidates
TextsOver(words) == UNION {[1..n -> words] : n \in 0..MaxWords}

FieldValues(words) == {Absent, NonString} \cup {StringOf(t) : t \in TextsOver(words)}

\* a few values per field, to go with the texts of another field
ProbeValues(known) == {Absent, NonString, StringOf(<<known>>), StringOf(<<"unsure">>)}

\* one enumeration field runs over all its texts while the two others take
\* probe values
InterviewFieldValues ==
  (FieldValues(StakesWords) \X ProbeValues("CLOSURE_QUEST") \X ProbeValues("Avoidant"))
    \cup (ProbeValues("low") \X FieldValues(ArchetypeWords) \X ProbeValues("Avoidant"))
    \cup (ProbeValues("low") \X ProbeValues("CLOSURE_QUEST") \X FieldValues(StyleWords))

InterviewCandidates ==
  {[schema |-> "interview", restOk |-> r, stakesLevel |-> f[1], hasPattern |-> h,
    archetype |-> f[2], attachmentStyle |-> f[3], hasPersonality |-> FALSE,
    personality |-> NoPersonality] :
     r \in BOOLEAN, h \in BOOLEAN, f \in InterviewFieldValues}

ResearchCandidates ==
  {[NoCandidate EXCEPT !.schema = "research", !.restOk = r] : r \in BOOLEAN}

PersonaCandidates ==
  {[NoCandidate EXCEPT !.schema = "persona", !.restOk = r, !.hasPersonality = h,
                       !.personality = ps] :
     r \in BOOLEAN, h \in BOOLEAN,
     ps \in [Traits -> {StringOf(<<w>>) : w \in TraitWords} \cup {Absent}]}

Candidates == InterviewCandidates \cup ResearchCandidates \cup PersonaCandidates

\* ======================================================= webhook authentication
\* verifyWebhookAuth (packages/openclaw).  A token is a number, 0 standing
\* for the empty string; a header is absent (get returns null) or holds a
\* value; the authorization value is its first seven characters and the rest.
SecretValues == 0..NumSecrets

EmptyToken == 0

NoHeader == [present |-> FALSE, scheme |-> "", token |-> EmptyToken]

HeaderOf(scheme, token) == [present |-> TRUE, scheme |-> scheme, token |-> token]

Schemes == {"Bearer ", "bearer ", "Basic  "}

AuthorizationValues == {NoHeader} \cup {HeaderOf(sc, t) : sc \in Schemes, t \in SecretValues}

CustomValues == {NoHeader} \cup {HeaderOf("", t) : t \in SecretValues}

HeaderSets == [authorization : AuthorizationValues, custom : CustomValues]

\* Variant: a Bearer header with another token falls through to the custom
\* header.
verifyWebhookAuth_EitherHeader(headers, expectedToken) ==
  IF expectedToken = EmptyToken THEN TRUE
  ELSE \/ /\ headers.authorization.present /\ headers.authorization.scheme = "Bearer "
          /\ headers.authorization.token = expectedToken
       \/ /\ headers.custom.present /\ headers.custom.token # EmptyToken
          /\ headers.custom.token = expectedToken

verifyWebhookAuth(headers, expectedToken) ==
  LET authHeader == headers.authorization
      customToken == headers.custom
  IN IF expectedToken = EmptyToken THEN TRUE
     ELSE IF authHeader.present /\ authHeader.scheme = "Bearer "
          THEN authHeader.token = expectedToken
     ELSE IF customToken.present /\ customToken.token # EmptyToken
          THEN customToken.token = expectedToken
     ELSE FALSE

VARIABLES
  fn,               \* which entry point the invocation runs, or "idle"
  hasSink,          \* whether onProgress was passed
  pc,               \* position in the entry point / the stage function
  events,           \* events delivered to the invocation's sink, in order
  response,         \* the chat response held by the running stage function
  parsed,           \* extractJson's value held by the running stage function
  interviewOutput, researchOutput, personaOutput, initialGreeting,
  error,            \* the value in flight / bound by catch (error)
  raised,           \* the value the entry point raised to its caller
  result,           \* the record the entry point returned
  calls,            \* history: the external calls started, in order
  callStatus,       \* history: per call, notstarted/running/returned/failed
  sinkRaised        \* history: the sink has raised on some event

\* one activation of extractJson
VARIABLES
  text,             \* the argument
  sanitized,        \* the local `sanitized`
  rstep,            \* position in extractJson
  jsonStr,          \* the local `jsonStr`
  scan,             \* aggressiveJsonFix's loop state: i, inString, result
  value,            \* the value extractJson returned (<<>>: none)
  thrown,           \* the Error extractJson threw
  tried,            \* history: the texts handed to JSON.parse, in order
  steps             \* history: the strategies that ran, in order

\* one Schema.parse(candidate)
VARIABLES
  candidate,        \* the value handed to parse
  vstep,            \* "idle", "start" or "done"
  validated         \* what parse gave: ok and the value, or not ok (ZodError)

\* one call of verifyWebhookAuth
VARIABLES
  reqHeaders,       \* the request's authorization and x-openclaw-token headers
  expected,         \* the configured token
  wstep,            \* "idle", "start" or "done"
  verdict           \* what verifyWebhookAuth returned

\* one call of chunkTextForWhatsApp
VARIABLES
  ctext,            \* the argument `text`
  climit,           \* the argument `limit`
  remaining,        \* the local `remaining`
  chunks,           \* the local `chunks`
  cstep             \* "idle", "start", "loop" or "done"

\* one fork creation attempt: POST /api/forks or the webhook's
\* handleForkCreation, running createPersona as invocation 1
VARIABLES
  entry,            \* "post", "webhook" or "none"
  fstep,            \* position in the handler
  forkStatus,       \* the fork row's status: "none" (no row) or its value
  outputsStored,    \* the fork row holds the pipeline outputs
  sse,              \* the types of the events sent on the stream, in order
  closes,           \* how many times controller.close() was called
  reply             \* what the handler answered: "none", "stream", a status or a text

\* one request to POST /api/webhook/openclaw
VARIABLES
  body,             \* sender, message and platform of the request body
  hstep,            \* position in the handler
  httpStatus,          \* the HTTP status answered (0: none yet)
  userTouched,      \* users.findOrCreate was called
  dataTouched       \* a fork or message repository call was made

\* detectForkType and buildResearchTask within createPersona
VARIABLES
  forkPoint,        \* decision and alternatives of the interview output
  forkType,         \* what detectForkType returned
  researchTask,     \* what buildResearchTask returned
  dstep             \* position between the two

\* one activation of M2HerClient.chatStream
VARIABLES
  streamBody,       \* the bytes of the response body
  readPos,          \* how many of them the reads have delivered
  decoderHeld,      \* bytes the decoder holds back for the next decode
  buffer,           \* the unfinished line
  yielded,          \* the strings yielded so far
  sstep,            \* position in the generator
  locked,           \* the reader holds the lock of the body
  exitBy            \* how the generator was left

\* the messages repository and the counters of one fork
VARIABLES
  msgCalls,         \* the calls of messages.create / createPair on the fork
  rows,             \* the message rows of the fork, in insertion order
  messageCount,     \* forks.message_count
  lastMessageAt     \* forks.last_message_at is set

locals == <<response, parsed, interviewOutput, researchOutput, personaOutput, initialGreeting>>
history == <<calls, callStatus>>
pvars == <<fn, hasSink, pc, events, response, parsed, interviewOutput, researchOutput,
           personaOutput, initialGreeting, error, raised, result, calls, callStatus,
           sinkRaised>>
evars == <<text, sanitized, rstep, jsonStr, scan, value, thrown, tried, steps>>
svars == <<candidate, vstep, validated>>
wvars == <<reqHeaders, expected, wstep, verdict>>
cvars == <<ctext, climit, remaining, chunks, cstep>>
\* the variables of the utilities and route handlers
fvars == <<entry, fstep, forkStatus, outputsStored, sse, closes, reply>>
hvars == <<body, hstep, httpStatus, userTouched, dataTouched>>
dvars == <<forkPoint, forkType, researchTask, dstep>>
mvars == <<streamBody, readPos, decoderHeld, buffer, yielded, sstep, locked, exitBy>>
gvars == <<msgCalls, rows, messageCount, lastMessageAt>>
uvars == <<cvars, fvars, hvars, dvars, mvars, gvars>>
\* what the steps of the pipeline, of extractJson, of a schema and of the
\* webhook check leave alone
outside == <<evars, svars, wvars, uvars>>
besidesEngine == <<pvars, svars, wvars, uvars>>
besidesSchema == <<pvars, evars, wvars, uvars>>
besidesWebhook == <<pvars, evars, svars, uvars>>
core == <<pvars, evars, svars, wvars>>
besidesChunk == <<core, fvars, hvars, dvars, mvars, gvars>>
besidesFork == <<core, cvars, hvars, dvars, mvars, gvars>>
besidesRequest == <<core, cvars, fvars, dvars, mvars, gvars>>
besidesDetect == <<core, cvars, fvars, hvars, mvars, gvars>>
besidesStream == <<core, cvars, fvars, hvars, dvars, gvars>>
besidesMessages == <<core, cvars, fvars, hvars, dvars, mvars>>
vars == <<pvars, evars, svars, wvars, uvars>>

CallNames == {"interview", "research", "architect", "greeting"}

\* ------------------------------------------------------------------- Init
InitOf(active) ==
  /\ fn \in [Inv -> {"createPersona", "createPersonaQuick", "idle"}]
  /\ \A p \in Inv : fn[p] = "idle" <=> p \notin active
  /\ hasSink \in [Inv -> BOOLEAN]
  /\ \A p \in Inv : p \notin active => ~hasSink[p]
  /\ pc = [p \in Inv |-> IF p \in active THEN "start" ELSE "idle"]
  /\ events = [p \in Inv |-> <<>>]
  /\ response = [p \in Inv |-> NoResponse]
  /\ parsed = [p \in Inv |-> NoData]
  /\ interviewOutput = [p \in Inv |-> NoData]
  /\ researchOutput = [p \in Inv |-> NoData]
  /\ personaOutput = [p \in Inv |-> NoData]
  /\ initialGreeting = [p \in Inv |-> 0]
  /\ error = [p \in Inv |-> NoError]
  /\ raised = [p \in Inv |-> NoError]
  /\ result = [p \in Inv |-> NoResult]
  /\ calls = [p \in Inv |-> <<>>]
  /\ callStatus = [p \in Inv |-> [c \in CallNames |-> "notstarted"]]
  /\ sinkRaised = [p \in Inv |-> FALSE]

\* no extractJson activation under way
EngineIdle ==
  /\ text = <<>> /\ sanitized = <<>> /\ rstep = "idle" /\ jsonStr = <<>>
  /\ scan = ScanStart /\ value = <<>> /\ thrown = NoThrow /\ tried = <<>> /\ steps = <<>>

\* no Schema.parse under way
SchemaIdle == candidate = NoCandidate /\ vstep = "idle" /\ validated = Rejected

\* no webhook request under way
WebhookIdle ==
  /\ reqHeaders = [authorization |-> NoHeader, custom |-> NoHeader]
  /\ expected = EmptyToken /\ wstep = "idle" /\ verdict = FALSE

\* no call of chunkTextForWhatsApp under way
ChunkIdle ==
  /\ ctext = <<>> /\ climit = 1 /\ remaining = <<>> /\ chunks = <<>> /\ cstep = "idle"

\* no utility or route handler under way
\* no fork creation under way
ForkIdle ==
  /\ entry = "none" /\ fstep = "idle" /\ forkStatus = "none" /\ outputsStored = FALSE
  /\ sse = <<>> /\ closes = 0 /\ reply = "none"

\* no webhook request under way
RequestIdle ==
  /\ body = [sender |-> "absent", message |-> "absent", platform |-> "absent"]
  /\ hstep = "idle" /\ httpStatus = 0 /\ userTouched = FALSE /\ dataTouched = FALSE

\* no fork type detection under way
DetectIdle ==
  /\ forkPoint = [decision |-> <<>>, alternatives |-> <<>>]
  /\ forkType = "none" /\ researchTask = [template |-> "none", subject |-> <<>>]
  /\ dstep = "idle"

\* no chatStream activation under way
StreamIdle ==
  /\ streamBody = <<>> /\ readPos = 0 /\ decoderHeld = <<>> /\ buffer = <<>>
  /\ yielded = <<>> /\ sstep = "idle" /\ locked = FALSE /\ exitBy = "none"

\* no call of the messages repository under way
MessagesIdle ==
  /\ msgCalls = [c \in {} |-> 0] /\ rows = <<>> /\ messageCount = 0 /\ lastMessageAt = FALSE

UtilIdle == ChunkIdle /\ ForkIdle /\ RequestIdle /\ DetectIdle /\ StreamIdle /\ MessagesIdle

\* nothing but the utilities and route handlers
CoreIdle == InitOf({}) /\ EngineIdle /\ SchemaIdle /\ WebhookIdle

Init == InitOf({1}) /\ EngineIdle /\ SchemaIdle /\ WebhookIdle /\ UtilIdle

\* ---------------------------------------------------------- progress events
\* `sub` marks an event forwarded from a stage function's own onProgress
\* callback (sub-progress), as opposed to one createPersona emits itself.
Ev(stage, status, message, data, sub) ==
  [stage |-> stage, status |-> status, message |-> message, data |-> data, sub |-> sub]

InterviewStartedEvent(f) ==
  Ev("interview", "started",
     IF f = "createPersona" THEN <<"Understanding your fork...">>
                            ELSE <<"Analyzing your fork...">>, NoData, FALSE)

\* Variant: the interview's completed event without its data.
InterviewCompletedEvent_NoData(f, out) ==
  Ev("interview", "completed", <<"Interview analysis complete">>, NoData, FALSE)

InterviewCompletedEvent(f, out) ==
  IF f = "createPersona"
  THEN Ev("interview", "completed", <<"Interview analysis complete">>, out, FALSE)
  ELSE Ev("interview", "completed", <<"Analysis complete">>, NoData, FALSE)

ResearchStartedEvent ==
  Ev("research", "started", <<"Researching your alternate timeline...">>, NoData, FALSE)

\* Variant: the research completed event sent with status started.
ResearchCompletedEvent_AsStarted(out) ==
  Ev("research", "started", <<"Research complete">>, out, FALSE)

ResearchCompletedEvent(out) ==
  Ev("research", "completed", <<"Research complete">>, out, FALSE)

ArchitectStartedEvent(f) ==
  Ev("architect", "started",
     IF f = "createPersona" THEN <<"Crafting your alternate self...">>
                            ELSE <<"Creating persona...">>, NoData, FALSE)

\* Variant: the architect completed event sent under the research stage.
ArchitectCompletedEvent_AsResearch(out) ==
  Ev("research", "completed", <<"Persona complete">>, out, FALSE)

ArchitectCompletedEvent(out) ==
  Ev("architect", "completed", <<"Persona complete">>, out, FALSE)

CompleteEvent(f) ==
  Ev("complete", "completed",
     IF f = "createPersona" THEN <<"Your alternate self is ready">> ELSE <<"Ready">>,
     NoData, FALSE)

\* The callbacks createPersona hands to the stage functions.
SubProgressEvent(stage, msg) == Ev(stage, "started", <<msg>>, NoData, TRUE)

\* Variant: the "Research" test comes first.
StageOfError_ResearchFirst(e) ==
  IF e.isError /\ Includes(e.message, "Research") THEN "research"
  ELSE IF e.isError /\ Includes(e.message, "Interview") THEN "interview"
  ELSE "architect"

\* Variant: no "Research" test at all.
StageOfError_NoResearch(e) ==
  IF e.isError /\ Includes(e.message, "Interview") THEN "interview" ELSE "architect"

\* catch block: which stage the failure is attributed to, and the message.
StageOfError(e) ==
  IF e.isError /\ Includes(e.message, "Interview") THEN "interview"
  ELSE IF e.isError /\ Includes(e.message, "Research") THEN "research"
  ELSE "architect"

\* Variant: the error event always carries the generic message.
MessageOfError_Generic(e) == <<"Unknown error">>

MessageOfError(e) == IF e.isError THEN e.message ELSE <<"Unknown error">>

ErrorEvent(e) == Ev(StageOfError(e), "error", MessageOfError(e), NoData, FALSE)

\* ------------------------------------------------------- control transfer
\* Variant: a failure restarts createPersona instead of entering catch.
Handler_Retry(f) == IF f = "createPersona" THEN "start" ELSE "raised"

\* createPersona's body runs inside try; createPersonaQuick has no handler,
\* so an exception leaves it directly.
Handler(f) == IF f = "createPersona" THEN "catch" ELSE "raised"

Throw(p, v) ==
  /\ pc' = [pc EXCEPT ![p] = Handler(fn[p])]
  /\ error' = [error EXCEPT ![p] = v]
  /\ raised' = [raised EXCEPT ![p] = IF fn[p] = "createPersona" THEN @ ELSE v]

Goto(p, next) ==
  /\ pc' = [pc EXCEPT ![p] = next]
  /\ UNCHANGED <<error, raised>>

Thrown(p) == pc'[p] \in {"catch", "raised"}

\* Variant: one sink object shared by all invocations (the first one's).
Emit_SharedSink(p, ev, next, o) ==
  IF ~hasSink[p]
  THEN Goto(p, next) /\ UNCHANGED <<events, sinkRaised>>
  ELSE /\ events' = [events EXCEPT ![1] = Append(@, ev)]
       /\ \/ Goto(p, next) /\ UNCHANGED sinkRaised
          \/ \E v \in SinkThrown(o) :
               /\ Throw(p, v)
               /\ sinkRaised' = [sinkRaised EXCEPT ![p] = TRUE]

\* onProgress?.(ev): nothing when no sink was passed; otherwise the sink is
\* called with ev and either returns (its return value is not used) or
\* raises, and nothing around the call catches what it raises.
Emit(p, ev, next, o) ==
  IF ~hasSink[p]
  THEN Goto(p, next) /\ UNCHANGED <<events, sinkRaised>>
  ELSE /\ events' = [events EXCEPT ![p] = Append(@, ev)]
       /\ \/ Goto(p, next) /\ UNCHANGED sinkRaised
          \/ \E v \in SinkThrown(o) :
               /\ Throw(p, v)
               /\ sinkRaised' = [sinkRaised EXCEPT ![p] = TRUE]

\* onProgress?.(msg) inside a stage function: createPersona passes a
\* callback, createPersonaQuick passes none.
SubEmit(p, stage, msg, next) ==
  IF fn[p] = "createPersona"
  THEN Emit(p, SubProgressEvent(stage, msg), next, stage)
  ELSE Goto(p, next) /\ UNCHANGED <<events, sinkRaised>>

SetStatus(p, c, st) == callStatus' = [callStatus EXCEPT ![p][c] = st]

\* ------------------------------------------------- steps of a stage function
\* Entry of a stage function: its first statement is the sub-progress call.
EnterStage(p, c, msg, from, to) ==
  /\ pc[p] = from
  /\ calls' = [calls EXCEPT ![p] = Append(@, c)]
  /\ SubEmit(p, c, msg, to)
  /\ SetStatus(p, c, IF Thrown(p) THEN "failed" ELSE "running")
  /\ UNCHANGED <<outside, fn, hasSink, locals, result>>

\* await chat(...): resolves with a non-empty content or rejects with an
\* Error (API error, no content, network failure).
ChatStep(p, c, from, to) ==
  /\ pc[p] = from
  /\ \/ \E r \in Responses(c) :
          /\ response' = [response EXCEPT ![p] = r]
          /\ Goto(p, to)
          /\ UNCHANGED callStatus
     \/ \E m \in Messages :
          /\ Throw(p, CallError(m, c))
          /\ SetStatus(p, c, "failed")
          /\ UNCHANGED response
  /\ UNCHANGED <<outside, fn, hasSink, events, parsed, interviewOutput, researchOutput,
                 personaOutput, initialGreeting, result, calls, sinkRaised>>

\* extractJson(response.content): a value, or an Error whose message quotes
\* the text.
ExtractJsonOk(r) == r.recoverable

ExtractStep(p, c, from, to) ==
  /\ pc[p] = from
  /\ IF ExtractJsonOk(response[p])
     THEN /\ parsed' = [parsed EXCEPT ![p] = response[p].value]
          /\ Goto(p, to)
          /\ UNCHANGED callStatus
     ELSE /\ \E m \in Messages : Throw(p, CallError(m, c))
          /\ SetStatus(p, c, "failed")
          /\ UNCHANGED parsed
  /\ UNCHANGED <<outside, fn, hasSink, events, response, interviewOutput, researchOutput,
                 personaOutput, initialGreeting, result, calls, sinkRaised>>

\* Schema.parse(parsed): the validated value, or a ZodError.
\* Variant: the schema accepts every candidate.
SchemaParseOk_AcceptAll(v) == TRUE

SchemaParseOk(v) == v.shapeOk

ValidateStep(p, c, from, to) ==
  /\ pc[p] = from
  /\ IF SchemaParseOk(parsed[p])
     THEN Goto(p, to) /\ UNCHANGED callStatus
     ELSE /\ \E m \in Messages : Throw(p, CallError(m, c))
          /\ SetStatus(p, c, "failed")
  /\ UNCHANGED <<outside, fn, hasSink, events, locals, result, calls, sinkRaised>>

\* ------------------------------------------------------------ createPersona
\* and createPersonaQuick, statement by statement.  Both entry points share
\* the program points; f = fn[p] selects the differences.
Full(p) == fn[p] = "createPersona"

InterviewStarted(p) ==
  /\ pc[p] = "start"
  /\ Emit(p, InterviewStartedEvent(fn[p]), "iv_call", "createPersona")
  /\ UNCHANGED <<outside, fn, hasSink, locals, result, history>>

\* runInterviewAgent
InterviewEnter(p) ==
  EnterStage(p, "interview", "Analyzing your fork description...", "iv_call", "iv_chat")

InterviewChat(p) == ChatStep(p, "interview", "iv_chat", "iv_extract")

InterviewExtract(p) == ExtractStep(p, "interview", "iv_extract", "iv_validate")

InterviewValidate(p) == ValidateStep(p, "interview", "iv_validate", "iv_done")

InterviewReturn(p) ==
  /\ pc[p] = "iv_done"
  /\ SubEmit(p, "interview", "Interview analysis complete", "iv_completed")
  /\ IF Thrown(p)
     THEN SetStatus(p, "interview", "failed") /\ UNCHANGED interviewOutput
     ELSE /\ SetStatus(p, "interview", "returned")
          /\ interviewOutput' = [interviewOutput EXCEPT ![p] = parsed[p]]
  /\ UNCHANGED <<outside, fn, hasSink, response, parsed, researchOutput, personaOutput,
                 initialGreeting, result, calls>>

InterviewCompleted(p) ==
  /\ pc[p] = "iv_completed"
  /\ Emit(p, InterviewCompletedEvent(fn[p], interviewOutput[p]),
          IF Full(p) THEN "rs_started" ELSE "placeholder", "createPersona")
  /\ UNCHANGED <<outside, fn, hasSink, locals, result, history>>

\* createPersonaQuick only: the minimal research output.
Placeholder(p) ==
  /\ pc[p] = "placeholder"
  /\ researchOutput' = [researchOutput EXCEPT ![p] = PlaceholderResearch]
  /\ Goto(p, "ar_started")
  /\ UNCHANGED <<outside, fn, hasSink, events, response, parsed, interviewOutput, personaOutput,
                 initialGreeting, result, history, sinkRaised>>

ResearchStarted(p) ==
  /\ pc[p] = "rs_started"
  /\ Emit(p, ResearchStartedEvent, "rs_call", "createPersona")
  /\ UNCHANGED <<outside, fn, hasSink, locals, result, history>>

\* runResearchAgent
ResearchEnter(p) ==
  EnterStage(p, "research", "Researching your alternate timeline...", "rs_call", "rs_chat")

ResearchChat(p) == ChatStep(p, "research", "rs_chat", "rs_extract")

ResearchExtract(p) == ExtractStep(p, "research", "rs_extract", "rs_validate")

ResearchValidate(p) == ValidateStep(p, "research", "rs_validate", "rs_done")

ResearchReturn(p) ==
  /\ pc[p] = "rs_done"
  /\ SubEmit(p, "research", "Research complete", "rs_completed")
  /\ IF Thrown(p)
     THEN SetStatus(p, "research", "failed") /\ UNCHANGED researchOutput
     ELSE /\ SetStatus(p, "research", "returned")
          /\ researchOutput' = [researchOutput EXCEPT ![p] = parsed[p]]
  /\ UNCHANGED <<outside, fn, hasSink, response, parsed, interviewOutput, personaOutput,
                 initialGreeting, result, calls>>

ResearchCompleted(p) ==
  /\ pc[p] = "rs_completed"
  /\ Emit(p, ResearchCompletedEvent(researchOutput[p]), "ar_started", "createPersona")
  /\ UNCHANGED <<outside, fn, hasSink, locals, result, history>>

ArchitectStarted(p) ==
  /\ pc[p] = "ar_started"
  /\ Emit(p, ArchitectStartedEvent(fn[p]), "ar_call", "createPersona")
  /\ UNCHANGED <<outside, fn, hasSink, locals, result, history>>

\* runArchitectAgent
ArchitectEnter(p) ==
  EnterStage(p, "architect", "Crafting your alternate self...", "ar_call", "ar_chat")

ArchitectChat(p) == ChatStep(p, "architect", "ar_chat", "ar_extract")

ArchitectExtract(p) == ExtractStep(p, "architect", "ar_extract", "ar_validate")

ArchitectValidate(p) == ValidateStep(p, "architect", "ar_validate", "ar_enhance")

enhancePersonaWithContextEngineering(persona) == [persona EXCEPT !.enhanced = TRUE]

ArchitectEnhance(p) ==
  /\ pc[p] = "ar_enhance"
  /\ SubEmit(p, "architect", "Applying context engineering...", "ar_done")
  /\ IF Thrown(p)
     THEN SetStatus(p, "architect", "failed") /\ UNCHANGED parsed
     ELSE /\ UNCHANGED callStatus
          /\ parsed' = [parsed EXCEPT ![p] = enhancePersonaWithContextEngineering(@)]
  /\ UNCHANGED <<outside, fn, hasSink, response, interviewOutput, researchOutput, personaOutput,
                 initialGreeting, result, calls>>

ArchitectReturn(p) ==
  /\ pc[p] = "ar_done"
  /\ SubEmit(p, "architect", "Persona complete", "gr_call")
  /\ IF Thrown(p)
     THEN SetStatus(p, "architect", "failed") /\ UNCHANGED personaOutput
     ELSE /\ SetStatus(p, "architect", "returned")
          /\ personaOutput' = [personaOutput EXCEPT ![p] = parsed[p]]
  /\ UNCHANGED <<outside, fn, hasSink, response, parsed, interviewOutput, researchOutput,
                 initialGreeting, result, calls>>

\* generateInitialGreeting: one chat call, plain text, no recovery.
GreetingEnter(p) ==
  /\ pc[p] = "gr_call"
  /\ calls' = [calls EXCEPT ![p] = Append(@, "greeting")]
  /\ SetStatus(p, "greeting", "running")
  /\ Goto(p, "gr_chat")
  /\ UNCHANGED <<outside, fn, hasSink, events, locals, result, sinkRaised>>

GreetingChat(p) ==
  /\ pc[p] = "gr_chat"
  /\ \/ \E g \in 1..NumOutputs :
          /\ initialGreeting' = [initialGreeting EXCEPT ![p] = g]
          /\ Goto(p, IF Full(p) THEN "ar_completed" ELSE "complete")
          /\ SetStatus(p, "greeting", "returned")
     \/ \E m \in Messages :
          /\ Throw(p, CallError(m, "greeting"))
          /\ SetStatus(p, "greeting", "failed")
          /\ UNCHANGED initialGreeting
  /\ UNCHANGED <<outside, fn, hasSink, events, response, parsed, interviewOutput, researchOutput,
                 personaOutput, result, calls, sinkRaised>>

\* createPersona only.
ArchitectCompleted(p) ==
  /\ pc[p] = "ar_completed"
  /\ Emit(p, ArchitectCompletedEvent(personaOutput[p]), "complete", "createPersona")
  /\ UNCHANGED <<outside, fn, hasSink, locals, result, history>>

Complete(p) ==
  /\ pc[p] = "complete"
  /\ Emit(p, CompleteEvent(fn[p]), "return", "createPersona")
  /\ UNCHANGED <<outside, fn, hasSink, locals, result, history>>

Return(p) ==
  /\ pc[p] = "return"
  /\ result' = [result EXCEPT ![p] =
                  ResultRecord(interviewOutput[p], researchOutput[p], personaOutput[p],
                               initialGreeting[p])]
  /\ Goto(p, "returned")
  /\ UNCHANGED <<outside, fn, hasSink, events, locals, history, sinkRaised>>

\* catch (error) of createPersona: one error event, then throw error.  When
\* the sink raises on the error event, that exception leaves instead.
Catch(p) ==
  /\ pc[p] = "catch"
  /\ pc' = [pc EXCEPT ![p] = "raised"]
  /\ IF ~hasSink[p]
     THEN /\ raised' = [raised EXCEPT ![p] = error[p]]
          /\ UNCHANGED <<events, sinkRaised>>
     ELSE /\ events' = [events EXCEPT ![p] = Append(@, ErrorEvent(error[p]))]
          /\ \/ /\ raised' = [raised EXCEPT ![p] = error[p]]
                /\ UNCHANGED sinkRaised
             \/ \E v \in SinkThrown("createPersona") :
                  /\ raised' = [raised EXCEPT ![p] = v]
                  /\ sinkRaised' = [sinkRaised EXCEPT ![p] = TRUE]
  /\ UNCHANGED <<outside, fn, hasSink, locals, error, result, history>>

Next ==
  \E p \in Inv :
    \/ InterviewStarted(p)
    \/ InterviewEnter(p)
    \/ InterviewChat(p)
    \/ InterviewExtract(p)
    \/ InterviewValidate(p)
    \/ InterviewReturn(p)
    \/ InterviewCompleted(p)
    \/ Placeholder(p)
    \/ ResearchStarted(p)
    \/ ResearchEnter(p)
    \/ ResearchChat(p)
    \/ ResearchExtract(p)
    \/ ResearchValidate(p)
    \/ ResearchReturn(p)
    \/ ResearchCompleted(p)
    \/ ArchitectStarted(p)
    \/ ArchitectEnter(p)
    \/ ArchitectChat(p)
    \/ ArchitectExtract(p)
    \/ ArchitectValidate(p)
    \/ ArchitectEnhance(p)
    \/ ArchitectReturn(p)
    \/ GreetingEnter(p)
    \/ GreetingChat(p)
    \/ ArchitectCompleted(p)
    \/ Complete(p)
    \/ Return(p)
    \/ Catch(p)

Spec == Init /\ [][Next]_vars

\* The external calls return or fail, and the synchronous code in between
\* runs: every enabled step is eventually taken.
FairSpec == Init /\ [][Next]_vars /\ WF_vars(Next)

\* Two invocations in flight at once, interleaved at every step.  Each
\* invocation's environment answers with outputs identified by the
\* invocation (so that a value crossing over would show) and with short
\* error messages; a sink that raises raises one fixed value.
ConcBound ==
  \A p \in Inv :
    /\ response[p].value.id \in {0, p}
    /\ initialGreeting[p] \in {0, p}
    /\ Len(error[p].message) <= 1
    /\ \A v \in {error[p], raised[p]} : v.by = "sink" => ~v.isError /\ v.message = <<>>

ConcInit == InitOf({1, 2}) /\ EngineIdle /\ SchemaIdle /\ WebhookIdle /\ UtilIdle

ConcNext == Next /\ ConcBound'

ConcSpec == ConcInit /\ [][ConcNext]_vars

\* ------------------------------------------------------------- extractJson
\* One call of extractJson(text), strategy by strategy.
RecoverInit ==
  /\ InitOf({})
  /\ text \in Texts
  /\ sanitized = <<>> /\ rstep = "start" /\ jsonStr = <<>> /\ scan = ScanStart
  /\ value = <<>> /\ thrown = NoThrow /\ tried = <<>> /\ steps = <<>>
  /\ SchemaIdle /\ WebhookIdle /\ UtilIdle

\* Variant: a successful parse does not end the chain.
TryParse_KeepGoing(c, name, next) ==
  /\ tried' = Append(tried, c)
  /\ steps' = Append(steps, name)
  /\ rstep' = next
  /\ IF JsonParse(c).ok THEN value' = JsonParse(c).val ELSE UNCHANGED value

\* try { return JSON.parse(c) } catch { }: return, or fall through to `next`
TryParse(c, name, next) ==
  /\ tried' = Append(tried, c)
  /\ steps' = Append(steps, name)
  /\ IF JsonParse(c).ok
     THEN value' = JsonParse(c).val /\ rstep' = "returned"
     ELSE UNCHANGED value /\ rstep' = next

PreSanitize ==
  /\ rstep = "start"
  /\ sanitized' = Sanitize(text)
  /\ rstep' = "direct"
  /\ UNCHANGED <<besidesEngine, text, jsonStr, scan, value, thrown, tried, steps>>

\* Strategy 1
DirectParse ==
  /\ rstep = "direct"
  /\ TryParse(Trim(sanitized), "direct", "fence")
  /\ UNCHANGED <<besidesEngine, text, sanitized, jsonStr, scan, thrown>>

\* Strategy 2
FenceParse ==
  /\ rstep = "fence"
  /\ IF FenceMatch(sanitized).ok
     THEN TryParse(Trim(FenceMatch(sanitized).inner), "fence", "brace")
     ELSE rstep' = "brace" /\ UNCHANGED <<value, tried, steps>>
  /\ UNCHANGED <<besidesEngine, text, sanitized, jsonStr, scan, thrown>>

\* Strategy 3
BraceExtract ==
  /\ rstep = "brace"
  /\ steps' = Append(steps, "brace")
  /\ LET firstBrace == FirstBrace(sanitized)
         lastBrace == LastBrace(sanitized)
     IN IF firstBrace = 0 \/ lastBrace = 0 \/ lastBrace <= firstBrace
        THEN /\ thrown' = NoJsonError(text)
             /\ rstep' = "thrown"
             /\ UNCHANGED jsonStr
        ELSE /\ jsonStr' = Slice(sanitized, firstBrace, lastBrace)
             /\ rstep' = "slice"
             /\ UNCHANGED thrown
  /\ UNCHANGED <<besidesEngine, text, sanitized, scan, value, tried>>

\* Strategy 4
SliceParse ==
  /\ rstep = "slice"
  /\ TryParse(jsonStr, "slice", "fix")
  /\ UNCHANGED <<besidesEngine, text, sanitized, jsonStr, scan, thrown>>

\* Strategy 5
FixCommonParse ==
  /\ rstep = "fix"
  /\ jsonStr' = fixCommonJsonIssues(jsonStr)
  /\ TryParse(jsonStr', "fixCommon", "scan")
  /\ UNCHANGED <<besidesEngine, text, sanitized, scan, thrown>>

\* Variant: the aggressive repair takes the common-issue repair's output.
ScanInput_Repaired == jsonStr

\* Strategy 6: aggressiveJsonFix(sanitized.slice(firstBrace, lastBrace + 1))
ScanInput == Slice(sanitized, FirstBrace(sanitized), LastBrace(sanitized))

AggressiveScan ==
  /\ rstep = "scan"
  /\ scan.i <= Len(ScanInput)
  /\ scan' = ScanStep(ScanInput, scan)
  /\ UNCHANGED <<besidesEngine, text, sanitized, rstep, jsonStr, value, thrown, tried, steps>>

AggressiveParse ==
  /\ rstep = "scan"
  /\ scan.i > Len(ScanInput)
  /\ jsonStr' = scan.result
  /\ tried' = Append(tried, jsonStr')
  /\ steps' = Append(steps, "aggressive")
  /\ IF JsonParse(jsonStr').ok
     THEN value' = JsonParse(jsonStr').val /\ rstep' = "returned" /\ UNCHANGED thrown
     ELSE thrown' = AllStrategiesError(jsonStr') /\ rstep' = "thrown" /\ UNCHANGED value
  /\ UNCHANGED <<besidesEngine, text, sanitized, scan>>

RecoverNext ==
  \/ PreSanitize
  \/ DirectParse
  \/ FenceParse
  \/ BraceExtract
  \/ SliceParse
  \/ FixCommonParse
  \/ AggressiveScan
  \/ AggressiveParse

RecoverSpec == RecoverInit /\ [][RecoverNext]_vars

\* ------------------------------------------------------------ Schema.parse
\* One call of a stage schema's parse on a candidate.
ValidateInit ==
  /\ InitOf({}) /\ EngineIdle /\ WebhookIdle /\ UtilIdle
  /\ candidate \in Candidates
  /\ vstep = "start"
  /\ validated = Rejected

ParseWith(schema, outcome) ==
  /\ vstep = "start"
  /\ candidate.schema = schema
  /\ validated' = outcome
  /\ vstep' = "done"
  /\ UNCHANGED <<besidesSchema, candidate>>

InterviewParse == ParseWith("interview", InterviewOutputSchema(candidate))

ResearchParse == ParseWith("research", ResearchOutputSchema(candidate))

PersonaParse == ParseWith("persona", PersonaOutputSchema(candidate))

ValidateNext ==
  \/ InterviewParse
  \/ ResearchParse
  \/ PersonaParse

ValidateSpec == ValidateInit /\ [][ValidateNext]_vars

\* ------------------------------------------------------ verifyWebhookAuth
\* One webhook request checked against the configured token.
WebhookInit ==
  /\ InitOf({}) /\ EngineIdle /\ SchemaIdle /\ UtilIdle
  /\ reqHeaders \in HeaderSets
  /\ expected \in SecretValues
  /\ wstep = "start"
  /\ verdict = FALSE

VerifyAuth ==
  /\ wstep = "start"
  /\ verdict' = verifyWebhookAuth(reqHeaders, expected)
  /\ wstep' = "done"
  /\ UNCHANGED <<besidesWebhook, reqHeaders, expected>>

WebhookNext == VerifyAuth

WebhookSpec == WebhookInit /\ [][WebhookNext]_vars

\* --------------------------------------------------- chunkTextForWhatsApp
\* One call chunkTextForWhatsApp(text, limit), one action per step of the
\* while loop.  Positions are the 0-based indexes of the code.
ChunkChars == {"a", " ", "."}

ChunkTexts == UNION {[1..n -> ChunkChars] : n \in 0..MaxChunkText}

\* t.lastIndexOf(w, pos): the last index <= pos where w starts, or -1
LastIndexOfFrom(t, w, pos) ==
  LET found == {i \in 0..pos : At(t, i + 1, w)}
  IN IF found = {} THEN -1 ELSE Max(found)

\* the break point of one iteration: a sentence end, else a space, else limit
\* (breakPoint < limit * 0.5 is 2 * breakPoint < limit)
BreakPoint(rem, limit) ==
  LET sentence == LastIndexOfFrom(rem, <<".", " ">>, limit)
      word == IF sentence = -1 \/ 2 * sentence < limit
              THEN LastIndexOfFrom(rem, <<" ">>, limit) ELSE sentence
  IN IF word = -1 \/ 2 * word < limit THEN limit ELSE word

\* remaining.slice(0, breakPoint + 1) and remaining.slice(breakPoint + 1)
SliceTo(t, b) == Slice(t, 1, IF b + 1 < Len(t) THEN b + 1 ELSE Len(t))

SliceFrom(t, b) == Slice(t, b + 2, Len(t))

ChunkInit ==
  /\ CoreIdle /\ ForkIdle /\ RequestIdle /\ DetectIdle /\ StreamIdle /\ MessagesIdle
  /\ ctext \in ChunkTexts
  /\ climit \in 1..MaxLimit
  /\ remaining = <<>> /\ chunks = <<>> /\ cstep = "start"

\* if (text.length <= limit) return [text]
ChunkWhole ==
  /\ cstep = "start" /\ Len(ctext) <= climit
  /\ chunks' = <<ctext>>
  /\ cstep' = "done"
  /\ UNCHANGED <<besidesChunk, ctext, climit, remaining>>

\* const chunks = []; let remaining = text
ChunkBegin ==
  /\ cstep = "start" /\ Len(ctext) > climit
  /\ chunks' = <<>> /\ remaining' = ctext
  /\ cstep' = "loop"
  /\ UNCHANGED <<besidesChunk, ctext, climit>>

\* the last piece: chunks.push(remaining); break
ChunkLast ==
  /\ cstep = "loop" /\ Len(remaining) > 0 /\ Len(remaining) <= climit
  /\ chunks' = Append(chunks, remaining)
  /\ cstep' = "done"
  /\ UNCHANGED <<besidesChunk, ctext, climit, remaining>>

\* one piece cut at the break point, both sides trimmed
ChunkSplit ==
  /\ cstep = "loop" /\ Len(remaining) > climit
  /\ chunks' = Append(chunks, Trim(SliceTo(remaining, BreakPoint(remaining, climit))))
  /\ remaining' = Trim(SliceFrom(remaining, BreakPoint(remaining, climit)))
  /\ UNCHANGED <<besidesChunk, ctext, climit, cstep>>

\* while (remaining.length > 0) ends; return chunks
ChunkEnd ==
  /\ cstep = "loop" /\ Len(remaining) = 0
  /\ cstep' = "done"
  /\ UNCHANGED <<besidesChunk, ctext, climit, remaining, chunks>>

ChunkNext ==
  \/ ChunkWhole
  \/ ChunkBegin
  \/ ChunkLast
  \/ ChunkSplit
  \/ ChunkEnd

ChunkSpec == ChunkInit /\ [][ChunkNext]_vars /\ WF_vars(ChunkNext)

\* ------------------------------------------------------------ fork creation
\* POST /api/forks and handleForkCreation.  createPersona runs as
\* invocation 1 of the pipeline, with the stream's send as its sink for
\* POST and with no sink for the webhook; every awaited repository call
\* resolves or rejects.  send (controller.enqueue) returns in every call.
ForkInit ==
  /\ InitOf({1}) /\ EngineIdle /\ SchemaIdle /\ WebhookIdle /\ ChunkIdle /\ RequestIdle /\ DetectIdle /\ StreamIdle /\ MessagesIdle
  /\ entry \in {"post", "webhook"}
  /\ fn[1] = "createPersona"
  /\ hasSink[1] = (entry = "post")
  /\ fstep = "start" /\ forkStatus = "none" /\ outputsStored = FALSE
  /\ sse = <<>> /\ closes = 0 /\ reply = "none"

\* POST before the fork exists: the body check and the demo user
PostBegin ==
  /\ entry = "post" /\ fstep = "start"
  /\ \/ reply' = "400" /\ fstep' = "finished"
     \/ reply' = "500" /\ fstep' = "finished"
     \/ reply' = "none" /\ fstep' = "create"
  /\ UNCHANGED <<besidesFork, entry, forkStatus, outputsStored, sse, closes>>

\* forks.create: the row is inserted with status 'creating', or the call
\* rejects and the outer catch answers 500
PostCreate ==
  /\ entry = "post" /\ fstep = "create"
  /\ \/ forkStatus' = "creating" /\ reply' = "stream" /\ fstep' = "pipeline"
     \/ forkStatus' = forkStatus /\ reply' = "500" /\ fstep' = "finished"
  /\ UNCHANGED <<besidesFork, entry, outputsStored, sse, closes>>

\* handleForkCreation: forks.create, inside the try
HookCreate ==
  /\ entry = "webhook" /\ fstep = "start"
  /\ \/ forkStatus' = "creating" /\ reply' = reply /\ fstep' = "pipeline"
     \/ forkStatus' = forkStatus /\ reply' = "sorry" /\ fstep' = "finished"
  /\ UNCHANGED <<besidesFork, entry, outputsStored, sse, closes>>

\* a step of createPersona; each progress event is sent on the stream by
\* the sink, which returns
PipelineStep ==
  /\ fstep = "pipeline"
  /\ Next
  /\ ~sinkRaised'[1]

\* await createPersona(...) settles
PipelineSettled ==
  /\ fstep = "pipeline" /\ pc[1] \in {"returned", "raised"}
  /\ IF pc[1] = "returned"
     THEN fstep' = "update" /\ reply' = reply
     ELSE IF entry = "post"
          THEN fstep' = "sendError" /\ reply' = reply
          ELSE fstep' = "finished" /\ reply' = "sorry"
  /\ UNCHANGED <<besidesFork, entry, forkStatus, outputsStored, sse, closes>>

\* Variant: a failed update is not noticed.
PostUpdate_FailureUnnoticed ==
  /\ entry = "post" /\ fstep = "update"
  /\ \/ forkStatus' = "active" /\ outputsStored' = TRUE
     \/ UNCHANGED <<forkStatus, outputsStored>>
  /\ fstep' = "sendResult"
  /\ UNCHANGED <<besidesFork, entry, sse, closes, reply>>

\* forks.updatePipelineOutputs in POST: sets the outputs and status
\* 'active', or rejects into the catch block
PostUpdate ==
  /\ entry = "post" /\ fstep = "update"
  /\ \/ forkStatus' = "active" /\ outputsStored' = TRUE /\ fstep' = "sendResult"
     \/ UNCHANGED <<forkStatus, outputsStored>> /\ fstep' = "sendError"
  /\ UNCHANGED <<besidesFork, entry, sse, closes, reply>>

\* forks.updatePipelineOutputs in handleForkCreation: on success the reply
\* presents the persona; the catch block only answers
HookUpdate ==
  /\ entry = "webhook" /\ fstep = "update"
  /\ \/ forkStatus' = "active" /\ outputsStored' = TRUE /\ reply' = "created"
     \/ UNCHANGED <<forkStatus, outputsStored>> /\ reply' = "sorry"
  /\ fstep' = "finished"
  /\ UNCHANGED <<besidesFork, entry, sse, closes>>

\* send({ type: 'result', ... })
PostSendResult ==
  /\ fstep = "sendResult"
  /\ sse' = Append(sse, "result")
  /\ fstep' = "sendDone"
  /\ UNCHANGED <<besidesFork, entry, forkStatus, outputsStored, closes, reply>>

\* send({ type: 'done' })
PostSendDone ==
  /\ fstep = "sendDone"
  /\ sse' = Append(sse, "done")
  /\ fstep' = "close"
  /\ UNCHANGED <<besidesFork, entry, forkStatus, outputsStored, closes, reply>>

\* catch: send({ type: 'error', ... })
PostSendError ==
  /\ fstep = "sendError"
  /\ sse' = Append(sse, "error")
  /\ fstep' = "archive"
  /\ UNCHANGED <<besidesFork, entry, forkStatus, outputsStored, closes, reply>>

\* catch: await forks.archive(fork.id), which resolves or rejects; finally
\* runs in both cases
PostArchive ==
  /\ fstep = "archive"
  /\ forkStatus' \in {"archived", forkStatus}
  /\ fstep' = "close"
  /\ UNCHANGED <<besidesFork, entry, outputsStored, sse, closes, reply>>

\* finally: controller.close()
PostClose ==
  /\ fstep = "close"
  /\ closes' = closes + 1
  /\ fstep' = "finished"
  /\ UNCHANGED <<besidesFork, entry, forkStatus, outputsStored, sse, reply>>

ForkNext ==
  \/ PostBegin
  \/ PostCreate
  \/ HookCreate
  \/ PipelineStep
  \/ PipelineSettled
  \/ PostUpdate
  \/ HookUpdate
  \/ PostSendResult
  \/ PostSendDone
  \/ PostSendError
  \/ PostArchive
  \/ PostClose

ForkSpec == ForkInit /\ [][ForkNext]_vars /\ WF_vars(ForkNext)

\* ------------------------------------------------ POST /api/webhook/openclaw
\* One request: the token check (VerifyAuth), the body, the user and the
\* routing of the message.  A body field is absent, null, the empty string
\* or a non-empty string.
FieldKinds == {"absent", "null", "empty", "text"}

Bodies == [sender : {"absent", "empty", "text"}, message : FieldKinds, platform : {"absent", "text"}]

\* !field
Falsy(f) == f \in {"absent", "null", "empty"}

\* message.match(replyPattern) in parseQuotedReply raises a TypeError when
\* message is undefined or null
ParseIncomingThrows(message) == message \in {"absent", "null"}

RequestInit ==
  /\ InitOf({}) /\ EngineIdle /\ SchemaIdle /\ ChunkIdle /\ ForkIdle /\ DetectIdle /\ StreamIdle /\ MessagesIdle
  /\ reqHeaders \in HeaderSets
  /\ expected \in SecretValues
  /\ wstep = "start" /\ verdict = FALSE
  /\ body \in Bodies
  /\ hstep = "auth" /\ httpStatus = 0 /\ userTouched = FALSE /\ dataTouched = FALSE

\* if (!verifyWebhookAuth(...)) return 401
RequestUnauthorized ==
  /\ hstep = "auth" /\ wstep = "done" /\ ~verdict
  /\ httpStatus' = 401 /\ hstep' = "answered"
  /\ UNCHANGED <<besidesRequest, body, userTouched, dataTouched>>

\* const parsedMessage = parseIncomingMessage(message); what it raises
\* is caught by the handler's catch, which answers 500
RequestParse ==
  /\ hstep = "auth" /\ wstep = "done" /\ verdict
  /\ IF ParseIncomingThrows(body.message)
     THEN httpStatus' = 500 /\ hstep' = "answered"
     ELSE httpStatus' = httpStatus /\ hstep' = "check"
  /\ UNCHANGED <<besidesRequest, body, userTouched, dataTouched>>

\* if (!sender || !message || !platform) return 400
RequestCheck ==
  /\ hstep = "check"
  /\ IF Falsy(body.sender) \/ Falsy(body.message) \/ Falsy(body.platform)
     THEN httpStatus' = 400 /\ hstep' = "answered"
     ELSE httpStatus' = httpStatus /\ hstep' = "user"
  /\ UNCHANGED <<besidesRequest, body, userTouched, dataTouched>>

\* const user = await users.findOrCreate(platformId)
RequestUser ==
  /\ hstep = "user"
  /\ userTouched' = TRUE
  /\ \/ httpStatus' = httpStatus /\ hstep' = "route"
     \/ httpStatus' = 500 /\ hstep' = "answered"
  /\ UNCHANGED <<besidesRequest, body, dataTouched>>

\* the command switch, handleForkCreation or handleConversation: an answer
\* with or without repository calls on forks and messages
RequestRoute ==
  /\ hstep = "route"
  /\ dataTouched' \in BOOLEAN
  /\ httpStatus' \in {200, 500}
  /\ hstep' = "answered"
  /\ UNCHANGED <<besidesRequest, body, userTouched>>

RequestNext ==
  \/ VerifyAuth
  \/ RequestUnauthorized
  \/ RequestParse
  \/ RequestCheck
  \/ RequestUser
  \/ RequestRoute

RequestSpec == RequestInit /\ [][RequestNext]_vars

\* -------------------------------------------------------- detectForkType
\* Texts are sequences of characters.  The decision is blank-joined words,
\* an alternative is one word; MaxForkWords bounds the words of both.
MaxForkWords == 2

ForkWords ==
  {<<"J", "o", "b">>,
   <<"g", "L", "o", "v", "e">>,
   <<"t", "a", "l", "k">>,
   <<"t", "o">>}

WordLists(n) == UNION {[1..k -> ForkWords] : k \in 0..n}

WordSplits ==
  {pr \in WordLists(MaxForkWords) \X WordLists(MaxForkWords) :
     Len(pr[1]) + Len(pr[2]) <= MaxForkWords}

ForkPoints == {[decision |-> Join(pr[1], <<" ">>), alternatives |-> pr[2]] : pr \in WordSplits}

NoForkPoint == [decision |-> <<>>, alternatives |-> <<>>]

NoTask == [template |-> "none", subject |-> <<>>]

LowerChar(c) ==
  CASE c = "J" -> "j"
    [] c = "L" -> "l"
    [] OTHER -> c

\* String.prototype.toLowerCase
LowerText(t) == [i \in DOMAIN t |-> LowerChar(t[i])]

\* String.prototype.includes
Contains(t, w) == \E i \in 1..Len(t) : At(t, i, w)

CareerKeywords ==
  {<<"j", "o", "b">>,
   <<"c", "a", "r", "e", "e", "r">>,
   <<"p", "r", "o", "f", "e", "s", "s", "i", "o", "n">>,
   <<"w", "o", "r", "k">>,
   <<"d", "o", "c", "t", "o", "r">>,
   <<"l", "a", "w", "y", "e", "r">>,
   <<"e", "n", "g", "i", "n", "e", "e", "r">>,
   <<"b", "u", "s", "i", "n", "e", "s", "s">>,
   <<"s", "t", "a", "r", "t", "u", "p">>}

RelationshipKeywords ==
  {<<"m", "a", "r", "r", "i", "e", "d">>,
   <<"r", "e", "l", "a", "t", "i", "o", "n", "s", "h", "i", "p">>,
   <<"d", "a", "t", "i", "n", "g">>,
   <<"p", "a", "r", "t", "n", "e", "r">>,
   <<"d", "i", "v", "o", "r", "c", "e", "d">>,
   <<"l", "o", "v", "e">>,
   <<"g", "i", "r", "l", "f", "r", "i", "e", "n", "d">>,
   <<"b", "o", "y", "f", "r", "i", "e", "n", "d">>}

HistoricalKeywords ==
  {<<"t", "a", "l", "k", " ", "t", "o">>,
   <<"s", "p", "e", "a", "k", " ", "w", "i", "t", "h">>,
   <<"i", "n", "t", "e", "r", "v", "i", "e", "w">>,
   <<"w", "h", "a", "t", " ", "w", "o", "u", "l", "d">>,
   <<"h", "i", "s", "t", "o", "r", "i", "c", "a", "l">>}

AnyIncluded(t, keys) == \E k \in keys : Contains(t, k)

\* `${decision} ${alternatives}` of the lower-cased decision and the
\* lower-cased blank-joined alternatives
Combined(fp) ==
  LowerText(fp.decision) \o <<" ">> \o LowerText(Join(fp.alternatives, <<" ">>))

detectForkType_RelationshipFirst(fp) ==
  IF AnyIncluded(Combined(fp), RelationshipKeywords) THEN "relationship"
  ELSE IF AnyIncluded(Combined(fp), CareerKeywords) THEN "career"
  ELSE IF AnyIncluded(Combined(fp), HistoricalKeywords) THEN "historical"
  ELSE "life_decision"

detectForkType(fp) ==
  IF AnyIncluded(Combined(fp), CareerKeywords) THEN "career"
  ELSE IF AnyIncluded(Combined(fp), RelationshipKeywords) THEN "relationship"
  ELSE IF AnyIncluded(Combined(fp), HistoricalKeywords) THEN "historical"
  ELSE "life_decision"

\* the keys of RESEARCH_TASK_TEMPLATES
TaskTemplates == {"career", "life_decision", "relationship", "historical"}

\* forkPoint.alternatives[1] || forkPoint.decision
SecondAlternativeOr(fp) ==
  IF Len(fp.alternatives) >= 2 /\ fp.alternatives[2] # <<>>
  THEN fp.alternatives[2]
  ELSE fp.decision

\* buildResearchTask: the template of the fork type, filled in
buildResearchTask(fp, ft) ==
  [template |-> IF ft \in TaskTemplates THEN ft ELSE "life_decision",
   subject |-> IF ft \in {"relationship", "historical"} THEN fp.decision
               ELSE SecondAlternativeOr(fp)]

DetectInit ==
  /\ InitOf({1}) /\ fn[1] = "createPersona"
  /\ EngineIdle /\ SchemaIdle /\ WebhookIdle /\ ChunkIdle /\ ForkIdle /\ RequestIdle /\ StreamIdle /\ MessagesIdle
  /\ forkPoint = NoForkPoint /\ forkType = "none" /\ researchTask = NoTask
  /\ dstep = "wait"

\* const forkType = detectForkType(interviewOutput), on the forkPoint the
\* validated interview output holds
Detect ==
  /\ dstep = "wait" /\ pc[1] = "rs_call"
  /\ \E fp \in ForkPoints :
       /\ forkPoint' = fp
       /\ forkType' = detectForkType(fp)
  /\ dstep' = "detected"
  /\ UNCHANGED <<besidesDetect, researchTask>>

\* const researchTask = buildResearchTask(interview, forkType), after the
\* first onProgress call of runResearchAgent
BuildTask ==
  /\ dstep = "detected" /\ pc[1] = "rs_chat"
  /\ researchTask' = buildResearchTask(forkPoint, forkType)
  /\ dstep' = "built"
  /\ UNCHANGED <<besidesDetect, forkPoint, forkType>>

\* what the calls and the sink of this run hand back: the first output of
\* each call, and messages of at most one token
DetectEnv ==
  /\ response[1].value.id <= 1
  /\ initialGreeting[1] <= 1
  /\ error[1].message \in SinkMessages

\* the steps of createPersona, in the order of the code around the two
DetectPipeline ==
  /\ pc[1] = "rs_call" => dstep = "detected"
  /\ pc[1] = "rs_chat" => dstep = "built"
  /\ Next
  /\ DetectEnv'

DetectNext ==
  \/ Detect
  \/ BuildTask
  \/ DetectPipeline

DetectSpec == DetectInit /\ [][DetectNext]_vars

\* ------------------------------------------------ M2HerClient.chatStream
\* The body is a sequence of bytes; the two bytes of U+00E9 are the only
\* bytes above 0x7F.
MaxLines == 2
MaxRead == 2

BYTE_C3 == "0xC3"
BYTE_A9 == "0xA9"
E_ACUTE == "U+00E9"
REPLACEMENT == "U+FFFD"

\* TextDecoder.decode of a complete byte sequence (by halves, never cut
\* between a lead byte and what follows it)
DecodeByte(x) == IF x \in {BYTE_C3, BYTE_A9} THEN REPLACEMENT ELSE x

CutOf(b) == IF b[(Len(b) + 1) \div 2] = BYTE_C3 THEN (Len(b) + 1) \div 2 - 1 ELSE (Len(b) + 1) \div 2

RECURSIVE DecodeBytes(_)
DecodeBytes(b) ==
  IF Len(b) = 0 THEN <<>>
  ELSE IF Len(b) = 1 THEN <<DecodeByte(b[1])>>
  ELSE IF Len(b) = 2
       THEN (IF b = <<BYTE_C3, BYTE_A9>> THEN <<E_ACUTE>> ELSE <<DecodeByte(b[1]), DecodeByte(b[2])>>)
  ELSE DecodeBytes(SubSeq(b, 1, CutOf(b))) \o DecodeBytes(SubSeq(b, CutOf(b) + 1, Len(b)))

\* decoder.decode(value, { stream: true }): a lead byte at the end of the
\* input is held back until its continuation arrives
HeldAfter(all) == IF all # <<>> /\ all[Len(all)] = BYTE_C3 THEN <<BYTE_C3>> ELSE <<>>

DecodeStream(held, bytes) ==
  LET all == held \o bytes
  IN [chars |-> DecodeBytes(SubSeq(all, 1, Len(all) - Len(HeldAfter(all)))),
      held |-> HeldAfter(all)]

\* String.prototype.split on the line feed
RECURSIVE SplitLines(_)
SplitLines(t) ==
  IF IndexOf(t, NL) = 0 THEN <<t>>
  ELSE <<SubSeq(t, 1, IndexOf(t, NL) - 1)>> \o SplitLines(SubSeq(t, IndexOf(t, NL) + 1, Len(t)))

AllButLast(s) == SubSeq(s, 1, Len(s) - 1)

\* buffer = lines.pop() || ''
Leftover_Dropped(pieces) == <<>>

Leftover(pieces) == pieces[Len(pieces)]

\* ---- property access on a parsed value (in its canonical spelling)
Undefined == <<>>

RECURSIVE MemberFrom(_, _, _)
\* the member after its value val: found, or on to the next member
MemberValue(v, key, k, val) ==
  IF k.val = Str(key) THEN val.val
  ELSE IF v[val.next] = "," THEN MemberFrom(v, val.next + 1, key)
  ELSE Undefined

MemberAt(v, key, k) == MemberValue(v, key, k, ParseValue(v, k.next + 1))

\* v[j] opens the key of a member, or closes the object
MemberFrom(v, j, key) ==
  IF v[j] # DQ THEN Undefined ELSE MemberAt(v, key, ParseStringBody(v, j + 1, <<>>))

\* v?.key
Prop(v, key) == IF v # <<>> /\ v[1] = "{" THEN MemberFrom(v, 2, key) ELSE Undefined

\* v?.[0]: the first element of an array, the member "0" of an object;
\* the first character of a string has none of the properties read next
ElementZero(v) ==
  IF v # <<>> /\ v[1] = "["
  THEN (IF Len(v) = 2 THEN Undefined ELSE ParseValue(v, 2).val)
  ELSE Prop(v, <<"0">>)

\* chunk.choices?.[0]?.delta?.content
DeltaContent(chunk) ==
  Prop(Prop(ElementZero(Prop(chunk, <<"c", "h", "o", "i", "c", "e", "s">>)), <<"d", "e", "l", "t", "a">>), <<"c", "o", "n", "t", "e", "n", "t">>)

\* if (content)
Truthy(v) ==
  v \notin {Undefined, <<DQ, DQ>>, <<"0">>, <<"n", "u", "l", "l">>, <<"f", "a", "l", "s", "e">>}

DataPrefix == <<"d", "a", "t", "a", ":", " ">>

DoneMark == <<"[", "D", "O", "N", "E", "]">>

Skip == [kind |-> "skip", val |-> <<>>]

\* JSON.parse(data) and the content of the chunk; a SyntaxError, and the
\* TypeError of reading choices of null, are caught
ContentOutcome(content) == IF Truthy(content) THEN [kind |-> "yield", val |-> content] ELSE Skip

ParsedOutcome(p) ==
  IF ~p.ok \/ p.val = <<"n", "u", "l", "l">> THEN Skip ELSE ContentOutcome(DeltaContent(p.val))

ChunkOutcome(data) == ParsedOutcome(JsonParse(data))

\* the body of the for loop on one line
LineOutcome(line) ==
  IF Trim(line) = <<>> \/ ~StartsWith(line, DataPrefix) THEN Skip
  ELSE IF Trim(Slice(line, 7, Len(line))) = DoneMark THEN [kind |-> "return", val |-> <<>>]
  ELSE ChunkOutcome(Trim(Slice(line, 7, Len(line))))

\* the for loop over the lines: what it yields, and whether it returned
RECURSIVE ProcessLines(_, _)
AfterLine(lines, out, o) ==
  IF o.kind = "return" THEN [yields |-> out, returned |-> TRUE]
  ELSE ProcessLines(Tail(lines), IF o.kind = "yield" THEN Append(out, o.val) ELSE out)

ProcessLines(lines, out) ==
  IF lines = <<>> THEN [yields |-> out, returned |-> FALSE]
  ELSE AfterLine(lines, out, LineOutcome(lines[1]))

\* ---- response bodies
ContentLine(c) == <<"d", "a", "t", "a", ":", " ", "{", DQ, "c", "h", "o", "i", "c", "e", "s", DQ, ":", "[", "{", DQ, "d", "e", "l", "t", "a", DQ, ":", "{", DQ, "c", "o", "n", "t", "e", "n", "t", DQ, ":", DQ>> \o c \o <<DQ, "}", "}", "]", "}">>

StreamLines ==
  {ContentLine(<<BYTE_C3, BYTE_A9>>),
   ContentLine(<<"b">>),
   ContentLine(<<>>),
   DataPrefix \o DoneMark,
   DataPrefix \o <<"{">>,
   <<":", " ", "k">>}

LineLists == UNION {[1..n -> StreamLines] : n \in 0..MaxLines}

\* every line ended by a line feed, or the last one left unfinished
StreamBodies ==
  {Join(ls, <<NL>>) \o <<NL>> : ls \in LineLists} \cup {Join(ls, <<NL>>) : ls \in LineLists}

StreamInit ==
  /\ CoreIdle /\ ChunkIdle /\ ForkIdle /\ RequestIdle /\ DetectIdle /\ MessagesIdle
  /\ streamBody \in StreamBodies
  /\ readPos = 0 /\ decoderHeld = <<>> /\ buffer = <<>> /\ yielded = <<>>
  /\ sstep = "request" /\ locked = FALSE /\ exitBy = "none"

Exit(how) == sstep' = "exited" /\ exitBy' = how /\ locked' = FALSE

\* await this.request(...): it rejects or the response has no body, and
\* the generator throws; or response.body.getReader()
StreamOpen ==
  /\ sstep = "request"
  /\ \/ sstep' = "exited" /\ exitBy' = "error" /\ locked' = locked
     \/ sstep' = "reading" /\ exitBy' = exitBy /\ locked' = TRUE
  /\ UNCHANGED <<besidesStream, streamBody, readPos, decoderHeld, buffer, yielded>>

\* a read delivers a few bytes, or all that is left of the body
ReadSizes == {n \in 1..(Len(streamBody) - readPos) : n <= MaxRead \/ n = Len(streamBody) - readPos}

\* what the decoder makes of the next n bytes
Decoded(n) == DecodeStream(decoderHeld, SubSeq(streamBody, readPos + 1, readPos + n))

\* the rest of the loop body after a read of n bytes: done is what the
\* for loop over the finished lines did
AfterRead(n, d, pieces, done) ==
  /\ readPos' = readPos + n
  /\ decoderHeld' = d.held
  /\ buffer' = Leftover(pieces)
  /\ yielded' = yielded \o done.yields
  /\ IF done.returned
     THEN Exit("done")
     ELSE UNCHANGED <<sstep, exitBy, locked>>

\* the same with the consumer leaving its loop at one of the yields: the
\* generator is returned there, and its finally block runs
ReturnedAfterRead(n, d, done) ==
  \E k \in 1..Len(done.yields) :
    /\ readPos' = readPos + n
    /\ decoderHeld' = d.held
    /\ buffer' = buffer \o d.chars
    /\ yielded' = yielded \o SubSeq(done.yields, 1, k)
    /\ Exit("return")

ReadLines(n, d, pieces) == AfterRead(n, d, pieces, ProcessLines(AllButLast(pieces), <<>>))

ReturnedInLines(n, d, pieces) == ReturnedAfterRead(n, d, ProcessLines(AllButLast(pieces), <<>>))

ReadDecoded(n, d) == ReadLines(n, d, SplitLines(buffer \o d.chars))

ReturnedDecoded(n, d) == ReturnedInLines(n, d, SplitLines(buffer \o d.chars))

\* reader.read() delivers the next n bytes; the lines they finish are
\* processed, up to a return at [DONE]
StreamRead ==
  /\ sstep = "reading"
  /\ \E n \in ReadSizes : ReadDecoded(n, Decoded(n))
  /\ UNCHANGED <<besidesStream, streamBody>>

StreamAbandoned ==
  /\ sstep = "reading"
  /\ \E n \in ReadSizes : ReturnedDecoded(n, Decoded(n))
  /\ UNCHANGED <<besidesStream, streamBody>>

\* reader.read() reports done
StreamEnd ==
  /\ sstep = "reading" /\ readPos = Len(streamBody)
  /\ Exit("end")
  /\ UNCHANGED <<besidesStream, streamBody, readPos, decoderHeld, buffer, yielded>>

\* reader.read() rejects
StreamFails ==
  /\ sstep = "reading"
  /\ Exit("error")
  /\ UNCHANGED <<besidesStream, streamBody, readPos, decoderHeld, buffer, yielded>>

StreamNext ==
  \/ StreamOpen
  \/ StreamRead
  \/ StreamAbandoned
  \/ StreamEnd
  \/ StreamFails

StreamSpec == StreamInit /\ [][StreamNext]_vars

\* ------------------------------------- messages.create, messages.createPair
NumDbCalls == 2

DbCalls == 1..NumDbCalls

\* a call: create with a role, or createPair (part 1 is its user message,
\* part 2 its alternate_self message)
CallOf(kind, role) == [kind |-> kind, role |-> role, part |-> 1, at |-> "insert"]

CallKinds ==
  {CallOf("create", "user"), CallOf("create", "alternate_self"), CallOf("createPair", "user")}

MessageInit ==
  /\ CoreIdle /\ ChunkIdle /\ ForkIdle /\ RequestIdle /\ DetectIdle /\ StreamIdle
  /\ msgCalls \in [DbCalls -> CallKinds]
  /\ rows = <<>> /\ messageCount = 0 /\ lastMessageAt = FALSE

\* await db.insert(schema.messages).values(...).returning(): the row is
\* stored, or the statement throws and the call rejects
InsertMessage(c) ==
  /\ msgCalls[c].at = "insert"
  /\ \/ /\ rows' = Append(rows, [role |-> msgCalls[c].role, call |-> c])
        /\ msgCalls' = [msgCalls EXCEPT ![c].at = "count"]
     \/ /\ rows' = rows
        /\ msgCalls' = [msgCalls EXCEPT ![c].at = "rejected"]
  /\ UNCHANGED <<besidesMessages, messageCount, lastMessageAt>>

\* await forks.incrementMessageCount(forkId): one UPDATE that adds 1 in
\* SQL and sets last_message_at, or the statement throws and the call
\* rejects; createPair goes on to its second create
incrementMessageCount(c) ==
  /\ msgCalls[c].at = "count"
  /\ \/ /\ messageCount' = messageCount + 1
        /\ lastMessageAt' = TRUE
        /\ msgCalls' =
             IF msgCalls[c].kind = "createPair" /\ msgCalls[c].part = 1
             THEN [msgCalls EXCEPT ![c] = [kind |-> "createPair", role |-> "alternate_self",
                                           part |-> 2, at |-> "insert"]]
             ELSE [msgCalls EXCEPT ![c].at = "resolved"]
     \/ /\ UNCHANGED <<messageCount, lastMessageAt>>
        /\ msgCalls' = [msgCalls EXCEPT ![c].at = "rejected"]
  /\ UNCHANGED <<besidesMessages, rows>>

MessageNext ==
  \E c \in DbCalls :
    \/ InsertMessage(c)
    \/ incrementMessageCount(c)

MessageSpec == MessageInit /\ [][MessageNext]_vars

TypeOK ==
  /\ fn \in [Inv -> {"createPersona", "createPersonaQuick", "idle"}]
  /\ hasSink \in [Inv -> BOOLEAN]
  /\ \A p \in Inv : Len(calls[p]) <= 4

\* ============================================================== properties
Terminal(p) == pc[p] \in {"returned", "raised"}

Pairs(evs) == [i \in DOMAIN evs |-> <<evs[i].stage, evs[i].status>>]

OwnEvents(evs) == SelectSeq(evs, LAMBDA e : ~e.sub)

IsPrefix(s, t) == Len(s) <= Len(t) /\ \A i \in DOMAIN s : s[i] = t[i]

ErrorIdx(evs) == {i \in DOMAIN evs : evs[i].status = "error"}

HasEvent(evs, stage, status) ==
  \E i \in DOMAIN evs : ~evs[i].sub /\ evs[i].stage = stage /\ evs[i].status = status

HasCompleted(evs, stage, out) ==
  \E i \in DOMAIN evs :
    /\ ~evs[i].sub /\ evs[i].stage = stage /\ evs[i].status = "completed"
    /\ evs[i].data = out

OutputOf(p, c) ==
  CASE c = "interview" -> interviewOutput[p]
    [] c = "research" -> researchOutput[p]
    [] c = "architect" -> personaOutput[p]

StageRank(s) ==
  CASE s = "interview" -> 1 [] s = "research" -> 2 [] s = "architect" -> 3
    [] s = "complete" -> 4

CallOrder == <<"interview", "research", "architect", "greeting">>

SuccessPairs ==
  << <<"interview", "started">>, <<"interview", "completed">>,
     <<"research", "started">>, <<"research", "completed">>,
     <<"architect", "started">>, <<"architect", "completed">>,
     <<"complete", "completed">> >>

\* A sub-progress event lies between the started and the completed event of
\* its own stage, with only sub-progress events in between.
InSpan(evs, i) ==
  \E j \in 1..(i - 1), k \in (i + 1)..Len(evs) :
    /\ ~evs[j].sub /\ evs[j].stage = evs[i].stage /\ evs[j].status = "started"
    /\ ~evs[k].sub /\ evs[k].stage = evs[i].stage /\ evs[k].status = "completed"
    /\ \A m \in (j + 1)..(k - 1) : evs[m].sub

\* C1: in a createPersona run whose calls all succeed and whose sink never
\* raises, the events createPersona emits itself are, as (stage, status)
\* pairs, exactly the seven of SuccessPairs in that order (a prefix of them
\* while the run is under way), and every sub-progress event has status
\* started and lies in the span of its own stage.
C1_SuccessSequence ==
  \A p \in Inv :
    (Full(p) /\ hasSink[p] /\ ~sinkRaised[p] /\ pc[p] \notin {"catch", "raised"}) =>
      /\ IsPrefix(Pairs(OwnEvents(events[p])), SuccessPairs)
      /\ \A i \in DOMAIN events[p] : events[p][i].sub => events[p][i].status = "started"
      /\ pc[p] = "returned" =>
           /\ Pairs(OwnEvents(events[p])) = SuccessPairs
           /\ \A i \in DOMAIN events[p] : events[p][i].sub => InSpan(events[p], i)

C1_Witness ==
  \E p \in Inv :
    /\ Full(p) /\ hasSink[p] /\ ~sinkRaised[p] /\ pc[p] = "returned"
    /\ Len(events[p]) = 14

\* C2: with a sink that does not raise, a failing call of createPersona
\* leads to exactly one error event, which is the last event and carries the
\* failure's message; the same error is raised to the caller, no result is
\* returned and no (complete, completed) event is emitted; before the
\* failure is handled no error event exists.
C2_FailureReportedOnce ==
  \A p \in Inv :
    (Full(p) /\ hasSink[p] /\ ~sinkRaised[p]) =>
      /\ pc[p] # "raised" => ErrorIdx(events[p]) = {}
      /\ pc[p] = "raised" =>
           /\ \E c \in CallNames : callStatus[p][c] = "failed" /\ error[p].origin = c
           /\ ErrorIdx(events[p]) = {Len(events[p])}
           /\ events[p][Len(events[p])].message = error[p].message
           /\ raised[p] = error[p]
           /\ raised[p].by = "call"
           /\ result[p] = NoResult
           /\ ~HasEvent(events[p], "complete", "completed")

C2_Witness ==
  \E p \in Inv :
    /\ Full(p) /\ hasSink[p] /\ ~sinkRaised[p] /\ pc[p] = "raised"
    /\ callStatus[p]["greeting"] = "failed"
    /\ Len(error[p].message) = 2

\* C3: the calls of one createPersona invocation are started in the order
\* interview, research, architect, greeting, each at most once; when a call
\* is started its predecessor has returned an output that was recovered and
\* satisfies its schema; a failed call is the last call started.
C3_CallsInOrderNoRetry ==
  \A p \in Inv :
    Full(p) =>
      /\ IsPrefix(calls[p], CallOrder)
      /\ \A i \in 2..Len(calls[p]) :
           /\ callStatus[p][CallOrder[i - 1]] = "returned"
           /\ OutputOf(p, CallOrder[i - 1]).kind = CallOrder[i - 1]
           /\ OutputOf(p, CallOrder[i - 1]).shapeOk
      /\ \A c \in CallNames :
           /\ callStatus[p][c] = "failed" => calls[p][Len(calls[p])] = c
           /\ callStatus[p][c] = "notstarted" <=> ~(\E i \in DOMAIN calls[p] : calls[p][i] = c)
      /\ \A i \in DOMAIN calls[p] :
           callStatus[p][calls[p][i]] \in {"failed", "running"} => i = Len(calls[p])

C3_Witness ==
  \E p \in Inv :
    /\ Full(p) /\ calls[p] = <<"interview", "research", "architect">>
    /\ callStatus[p]["architect"] = "failed"
    /\ pc[p] = "raised"

\* The research stage function raised an Error whose message contains
\* "Research", and createPersona has finished handling it.
ResearchRaised(p) ==
  /\ Full(p) /\ hasSink[p] /\ pc[p] = "raised"
  /\ callStatus[p]["research"] = "failed"
  /\ error[p].origin = "research" /\ error[p].by = "call" /\ error[p].isError
  /\ Includes(error[p].message, "Research")

TaggedResearchOnce(p) ==
  /\ Cardinality(ErrorIdx(events[p])) = 1
  /\ \A i \in ErrorIdx(events[p]) : events[p][i].stage = "research"
  /\ callStatus[p]["architect"] = "notstarted"
  /\ callStatus[p]["greeting"] = "notstarted"

\* C4 as stated: whenever the research stage raises an error whose message
\* contains "Research", exactly one error event is emitted, it is tagged
\* research, and the architect stage is never invoked.
C4_ResearchFailureTagged ==
  \A p \in Inv : ResearchRaised(p) => TaggedResearchOnce(p)

\* C4 amended: the same, for a message that contains "Research" and does not
\* contain "Interview".
C4_ResearchFailureTaggedUnlessInterview ==
  \A p \in Inv :
    (ResearchRaised(p) /\ ~Includes(error[p].message, "Interview")) => TaggedResearchOnce(p)

C4_Witness ==
  \E p \in Inv :
    /\ ResearchRaised(p) /\ ~Includes(error[p].message, "Interview")
    /\ events[p][Len(events[p])].stage = "research"

NonDecreasing(evs) ==
  \A i, j \in DOMAIN evs : i < j => StageRank(evs[i].stage) <= StageRank(evs[j].stage)

\* C5 as stated: in every run of createPersona, successful or failing, no
\* event of an earlier stage is delivered after an event of a later stage
\* (read on the runs whose sink never raises, where it already fails).
C5_StageOrderAllRuns ==
  \A p \in Inv : (Full(p) /\ ~sinkRaised[p]) => NonDecreasing(events[p])

NonErrorEvents(evs) == SelectSeq(evs, LAMBDA e : e.status # "error")

\* C5 amended: in every run of createPersona the started and completed
\* events are in stage order, all events of a run that returns are in stage
\* order, an error event (whose stage comes from the error message and may be
\* an earlier stage) is only ever the last event, and every step delivers at
\* most one event, appended to those already delivered.
C5_StageOrderExceptError ==
  /\ [](\A p \in Inv :
          Full(p) =>
            /\ NonDecreasing(NonErrorEvents(events[p]))
            /\ ErrorIdx(events[p]) \subseteq {Len(events[p])}
            /\ pc[p] = "returned" => NonDecreasing(events[p]))
  /\ [][\A p \in Inv :
          \/ events'[p] = events[p]
          \/ /\ Len(events'[p]) = Len(events[p]) + 1
             /\ SubSeq(events'[p], 1, Len(events[p])) = events[p]]_vars

C5_Witness ==
  \E p \in Inv :
    /\ Full(p) /\ pc[p] = "raised" /\ callStatus[p]["architect"] = "failed"
    /\ ~sinkRaised[p]
    /\ Len(events[p]) >= 7
    /\ events[p][Len(events[p])].status = "error"
    /\ events[p][Len(events[p])].stage = "interview"

\* C6 as stated: once a createPersona run has ended, every stage function
\* that returned has a completed event carrying its output, and
\* (complete, completed) exists only if the greeting call succeeded.
C6_CompletedOnStageReturn ==
  \A p \in Inv :
    (Full(p) /\ hasSink[p]) =>
      /\ Terminal(p) =>
           \A s \in {"interview", "research", "architect"} :
             callStatus[p][s] = "returned" => HasCompleted(events[p], s, OutputOf(p, s))
      /\ HasEvent(events[p], "complete", "completed") => callStatus[p]["greeting"] = "returned"

\* C6 amended: a returned interview or research stage function has its
\* completed event, carrying its output, as the very next event; the
\* (architect, completed) event carries the persona output and is emitted
\* if and only if both the architect stage function and the greeting call
\* have succeeded (once past that program point); (complete, completed) is
\* emitted only after the greeting call has succeeded.
C6_CompletedAfterGreetingForArchitect ==
  \A p \in Inv :
    (Full(p) /\ hasSink[p]) =>
      /\ \A s \in {"interview", "research"} :
           (callStatus[p][s] = "returned" /\ pc[p] # (IF s = "interview" THEN "iv_completed" ELSE "rs_completed"))
             => HasCompleted(events[p], s, OutputOf(p, s))
      /\ (callStatus[p]["greeting"] = "returned" /\ pc[p] # "ar_completed")
           => HasCompleted(events[p], "architect", personaOutput[p])
      /\ HasEvent(events[p], "architect", "completed")
           => /\ callStatus[p]["architect"] = "returned"
              /\ callStatus[p]["greeting"] = "returned"
      /\ HasEvent(events[p], "complete", "completed")
           => /\ callStatus[p]["greeting"] = "returned"
              /\ HasEvent(events[p], "architect", "completed")

C6_Witness ==
  \E p \in Inv :
    /\ Full(p) /\ hasSink[p] /\ pc[p] = "raised"
    /\ callStatus[p]["architect"] = "returned"
    /\ callStatus[p]["greeting"] = "failed"
    /\ HasCompleted(events[p], "research", researchOutput[p])
    /\ ~HasEvent(events[p], "architect", "completed")

\* C7 as stated: what the sink raises never enters createPersona: the value
\* handled by the catch block and the value raised to the caller always
\* come from a call of the pipeline, and a run in which no call fails
\* returns a result.
C7_SinkNeverThrowsBack ==
  \A p \in Inv :
    Full(p) =>
      /\ error[p].by # "sink"
      /\ raised[p].by # "sink"
      /\ (Terminal(p) /\ \A c \in CallNames : callStatus[p][c] # "failed")
           => pc[p] = "returned"

\* C8: every error event of createPersona has the stage interview if the
\* caught value is an Error whose message contains "Interview", else
\* research if it is an Error whose message contains "Research", else
\* architect, whichever call failed; its message is the Error's message, or
\* 'Unknown error' for a value that is not an Error.
C8_StageFromMessage ==
  \A p \in Inv :
    Full(p) =>
      \A i \in ErrorIdx(events[p]) :
        LET e == error[p]
            ev == events[p][i]
            hasI == \E k \in DOMAIN e.message : e.message[k] = "Interview"
            hasR == \E k \in DOMAIN e.message : e.message[k] = "Research"
        IN /\ e.isError /\ hasI => ev.stage = "interview"
           /\ e.isError /\ ~hasI /\ hasR => ev.stage = "research"
           /\ e.isError /\ ~hasI /\ ~hasR => ev.stage = "architect"
           /\ e.isError => ev.message = e.message
           /\ ~e.isError => ev.stage = "architect" /\ ev.message = <<"Unknown error">>

C8_Witness ==
  \E p \in Inv :
    /\ Full(p) /\ hasSink[p] /\ pc[p] = "raised"
    /\ error[p].isError /\ error[p].message = <<"Research", "Interview">>
    /\ error[p].origin = "architect"
    /\ events[p][Len(events[p])].stage = "interview"

\* The states of the orchestrator's state machine, by program point.
MachineState(q) ==
  CASE q = "idle" -> "IDLE"
    [] q = "start" -> "START"
    [] q \in {"iv_call", "iv_chat", "iv_extract", "iv_validate", "iv_done",
              "iv_completed"} -> "INTERVIEW"
    [] q \in {"rs_started", "rs_call", "rs_chat", "rs_extract", "rs_validate", "rs_done",
              "rs_completed"} -> "RESEARCH"
    [] q \in {"placeholder", "ar_started", "ar_call", "ar_chat", "ar_extract",
              "ar_validate", "ar_enhance", "ar_done"} -> "ARCHITECT"
    [] q \in {"gr_call", "gr_chat", "ar_completed"} -> "GREETING"
    [] q \in {"complete", "return", "returned"} -> "COMPLETE"
    [] q \in {"catch", "raised"} -> "FAILED"

MachineRank(m) ==
  CASE m = "IDLE" -> 0 [] m = "START" -> 1 [] m = "INTERVIEW" -> 2 [] m = "RESEARCH" -> 3
    [] m = "ARCHITECT" -> 4 [] m = "GREETING" -> 5 [] m = "COMPLETE" -> 6
    [] m = "FAILED" -> 7

\* C9: every createPersona invocation terminates, by returning a result
\* from COMPLETE or by raising; its machine state only ever moves to the next
\* state of START, INTERVIEW, RESEARCH, ARCHITECT, GREETING, COMPLETE or to
\* the failure exit, and a state once left is never entered again.
C9_LinearAndTerminates ==
  /\ \A p \in Inv : Full(p) ~> Terminal(p)
  /\ [](\A p \in Inv :
          (Full(p) /\ Terminal(p)) =>
            \/ pc[p] = "returned" /\ result[p] # NoResult /\ raised[p] = NoError
            \/ pc[p] = "raised" /\ result[p] = NoResult /\ raised[p] # NoError)
  /\ [][\A p \in Inv :
          (Full(p) /\ MachineState(pc'[p]) # MachineState(pc[p])) =>
            /\ MachineState(pc[p]) # "FAILED"
            /\ \/ MachineRank(MachineState(pc'[p])) = MachineRank(MachineState(pc[p])) + 1
               \/ MachineState(pc'[p]) = "FAILED"]_vars
  /\ [][\A p \in Inv : (Full(p) /\ Terminal(p)) => pc'[p] = pc[p]]_vars

C9_Witness ==
  \E p \in Inv : Full(p) /\ pc[p] = "returned" /\ result[p].personaOutput.enhanced

QuickPairs ==
  << <<"interview", "started">>, <<"interview", "completed">>,
     <<"architect", "started">>, <<"architect", "completed">>,
     <<"complete", "completed">> >>

\* C10 as stated: with a sink that does not raise, a createPersonaQuick run
\* that returns has delivered exactly the five pairs of QuickPairs, each
\* completed stage event carrying that stage's output, and a run that raises
\* has delivered exactly one error event.
C10_QuickProgressContract ==
  \A p \in Inv :
    (fn[p] = "createPersonaQuick" /\ hasSink[p] /\ ~sinkRaised[p]) =>
      /\ pc[p] = "returned" =>
           /\ Pairs(events[p]) = QuickPairs
           /\ HasCompleted(events[p], "interview", interviewOutput[p])
           /\ HasCompleted(events[p], "architect", personaOutput[p])
      /\ pc[p] = "raised" => Cardinality(ErrorIdx(events[p])) = 1

ResultFields ==
  {"interviewOutput", "researchOutput", "personaOutput", "personaPrompt", "summary",
   "name", "initialGreeting"}

QuickReturned(p) == fn[p] = "createPersonaQuick" /\ pc[p] = "returned"

\* What C11 and its amendment share: the research stage is never invoked, the
\* result has createPersona's seven fields, filled from the locals, and every
\* list and map of the research placeholder is empty.
QuickShape(p) ==
  /\ callStatus[p]["research"] = "notstarted"
  /\ \A i \in DOMAIN calls[p] : calls[p][i] # "research"
  /\ DOMAIN result[p] = ResultFields
  /\ result[p].interviewOutput = interviewOutput[p]
  /\ result[p].personaOutput = personaOutput[p]
  /\ result[p].personaPrompt = <<"fullPrompt", personaOutput[p].id, TRUE>>
  /\ result[p].name = <<"name", personaOutput[p].id>>
  /\ result[p].summary = <<"summary", personaOutput[p].id>>
  /\ result[p].initialGreeting = initialGreeting[p]
  /\ LET c == result[p].researchOutput.content
     IN /\ c.factualGrounding.timelineEvents = <<>>
        /\ DOMAIN c.factualGrounding.realisticOutcomes = {}
        /\ DOMAIN c.factualGrounding.statisticalContext = {}
        /\ c.voiceCues.vocabulary = <<>>
        /\ c.authenticityAnchors = <<>>

\* C11 as stated: a createPersonaQuick run that returns has QuickShape and
\* every descriptive field of its research placeholder is the static
\* "to be discovered" string.
C11_QuickPlaceholderAllToBeDiscovered ==
  \A p \in Inv :
    QuickReturned(p) =>
      /\ QuickShape(p)
      /\ LET c == result[p].researchOutput.content
         IN /\ \A f \in DOMAIN c.worldDetails : c.worldDetails[f] = ToBeDiscovered
            /\ c.voiceCues.speechPatterns = ToBeDiscovered
            /\ c.voiceCues.emotionalExpression = ToBeDiscovered

\* C11 amended: the same, with the three worldDetails fields set to the "to
\* be discovered" string and the two descriptive voiceCues fields set to
\* their own static texts; a createPersona run that returns has the same
\* seven result fields.
C11_QuickPlaceholder ==
  \A p \in Inv :
    /\ QuickReturned(p) =>
         /\ QuickShape(p)
         /\ LET c == result[p].researchOutput.content
            IN /\ DOMAIN c.worldDetails = {"dailyLife", "relationships", "environment"}
               /\ \A f \in DOMAIN c.worldDetails :
                    c.worldDetails[f] = "To be discovered through conversation"
               /\ c.voiceCues.speechPatterns = "Natural, conversational"
               /\ c.voiceCues.emotionalExpression = "Open and reflective"
    /\ (Full(p) /\ pc[p] = "returned") => DOMAIN result[p] = ResultFields

C11_Witness ==
  \E p \in Inv :
    /\ QuickReturned(p) /\ hasSink[p]
    /\ calls[p] = <<"interview", "architect", "greeting">>
    /\ result[p].personaOutput.enhanced

\* ------------------------------------------------------------ concurrency
\* Everything the model holds for invocation q.
Proj(q) ==
  <<fn[q], hasSink[q], pc[q], events[q], response[q], parsed[q], interviewOutput[q],
    researchOutput[q], personaOutput[q], initialGreeting[q], error[q], raised[q],
    result[q], calls[q], callStatus[q], sinkRaised[q]>>

\* The events an invocation emits when nothing fails, from its own locals.
FullList(p) ==
  << InterviewStartedEvent(fn[p]),
     SubProgressEvent("interview", "Analyzing your fork description..."),
     SubProgressEvent("interview", "Interview analysis complete"),
     InterviewCompletedEvent(fn[p], interviewOutput[p]),
     ResearchStartedEvent,
     SubProgressEvent("research", "Researching your alternate timeline..."),
     SubProgressEvent("research", "Research complete"),
     ResearchCompletedEvent(researchOutput[p]),
     ArchitectStartedEvent(fn[p]),
     SubProgressEvent("architect", "Crafting your alternate self..."),
     SubProgressEvent("architect", "Applying context engineering..."),
     SubProgressEvent("architect", "Persona complete"),
     ArchitectCompletedEvent(personaOutput[p]),
     CompleteEvent(fn[p]) >>

QuickList(p) ==
  << InterviewStartedEvent(fn[p]), InterviewCompletedEvent(fn[p], interviewOutput[p]),
     ArchitectStartedEvent(fn[p]), CompleteEvent(fn[p]) >>

ListOf(p) == IF Full(p) THEN FullList(p) ELSE QuickList(p)

\* How many events precede the failure of call c.
EmittedBefore(p, c) ==
  IF Full(p)
  THEN CASE c = "interview" -> 2 [] c = "research" -> 6 [] c = "architect" -> 10
         [] c = "greeting" -> 12
  ELSE CASE c = "interview" -> 1 [] c = "research" -> 2 [] c = "architect" -> 3
         [] c = "greeting" -> 3

FailedCall(p) == CHOOSE c \in CallNames : callStatus[p][c] = "failed"

\* The event sequence of a finished invocation as a function of its own
\* outcome alone.
ExpectedEvents(p) ==
  IF ~hasSink[p] THEN <<>>
  ELSE IF pc[p] = "returned" THEN ListOf(p)
  ELSE SubSeq(ListOf(p), 1, EmittedBefore(p, FailedCall(p)))
         \o (IF Full(p) THEN <<ErrorEvent(error[p])>> ELSE <<>>)

WithoutError(evs) ==
  IF evs # <<>> /\ evs[Len(evs)].status = "error" THEN SubSeq(evs, 1, Len(evs) - 1)
  ELSE evs

OwnIds(p) == {0, p}

Isolated(p) ==
  /\ IsPrefix(WithoutError(events[p]), ListOf(p))
  /\ \A i \in DOMAIN events[p] : events[p][i].data.id \in OwnIds(p)
  /\ (Terminal(p) /\ ~sinkRaised[p]) => events[p] = ExpectedEvents(p)
  /\ pc[p] = "returned" =>
       /\ result[p] = ResultRecord(interviewOutput[p], researchOutput[p],
                                   personaOutput[p], initialGreeting[p])
       /\ result[p].personaOutput.id = p /\ result[p].interviewOutput.id = p
       /\ result[p].initialGreeting = p
       /\ raised[p] = NoError
  /\ (pc[p] = "raised" /\ ~sinkRaised[p]) =>
       /\ raised[p] = error[p] /\ raised[p].origin = FailedCall(p)
       /\ result[p] = NoResult

\* C12: with two invocations interleaved at every step, each sink holds only
\* events of its own invocation (its own outputs, its own entry point's
\* messages), each finished invocation's event sequence and outcome are the
\* function of its own call outcomes that they are when it runs alone, and
\* every step changes the state of one invocation only.
C12_InvocationsIndependent ==
  /\ [](\A p \in Inv : Isolated(p))
  /\ [][\E p \in Inv : \A q \in Inv \ {p} : Proj(q)' = Proj(q)]_vars

\* Both invocations have run to their end side by side, one to a result with
\* all fourteen events and one to a failure of its research call.
C12_Witness ==
  /\ Full(1) /\ Full(2) /\ hasSink[1] /\ hasSink[2]
  /\ pc[1] = "returned" /\ Len(events[1]) = 14
  /\ pc[2] = "raised" /\ ~sinkRaised[2] /\ callStatus[2]["research"] = "failed"
  /\ result[1].researchOutput.id = 1

\* ============================================================= extractJson
Done == rstep \in {"returned", "thrown"}

\* C13: for a text that is well-formed JSON, extractJson returns the value a
\* standard parser gives for that text, and the direct parse is the only
\* strategy that ran.
C13_WellFormedDirect ==
  (JsonParse(text).ok /\ Done) =>
    /\ rstep = "returned"
    /\ value = JsonParse(text).val
    /\ steps = <<"direct">>

NoBracePair(t) == ~(\E i \in 1..Len(t), j \in 1..Len(t) : i < j /\ t[i] = "{" /\ t[j] = "}")

PrefixOfLen(t, n) == Slice(t, 1, IF Len(t) < n THEN Len(t) ELSE n)

\* C14 as stated: for a text with no '{' followed later by a '}', extractJson
\* returns no value and fails with an error carrying a prefix of the text.
C14_NoBracePairFails ==
  (NoBracePair(text) /\ Done) =>
    /\ rstep = "thrown"
    /\ value = <<>>
    /\ thrown.preview = PrefixOfLen(text, 300)

\* C14 amended: for a text with no '{' followed later by a '}', extractJson
\* returns the value of the trimmed sanitized text when that is JSON (a
\* number, a string, an array, a literal), else the value of the first
\* fenced block when that is JSON, and otherwise returns no value, at no
\* step, and fails with the "No valid JSON object found" error carrying the
\* first 300 characters of the original text.
C14_NoBracePairFailsUnlessJson ==
  NoBracePair(text) =>
    LET san == Sanitize(text)
        plain == JsonParse(Trim(san))
        block == FenceMatch(san)
        fenced == IF block.ok THEN JsonParse(Trim(block.inner)) ELSE [ok |-> FALSE, val |-> <<>>]
    IN /\ (~plain.ok /\ ~fenced.ok) => value = <<>>
       /\ Done =>
            IF plain.ok THEN rstep = "returned" /\ value = plain.val
            ELSE IF fenced.ok THEN rstep = "returned" /\ value = fenced.val
            ELSE /\ rstep = "thrown"
                 /\ thrown.kind = "No valid JSON object found"
                 /\ thrown.preview = PrefixOfLen(text, 300)
                 /\ steps[Len(steps)] = "brace"

\* prose longer than the preview fails, with the preview cut at 300
C14_Witness ==
  /\ text = LongProse /\ NoBracePair(text) /\ rstep = "thrown"
  /\ Len(thrown.preview) = 300 /\ Len(text) > 300

\* C15: in aggressiveJsonFix, a double quote met inside a string ends the
\* string exactly when the rest of the text, leading whitespace removed, is
\* empty or begins with , } ] or : -- the quote is then emitted as it is;
\* otherwise it is emitted escaped and the string stays open.  For
\* {"note": "she said "hi" to me"} extractJson returns, by the aggressive
\* repair, the object whose note is the string: she said "hi" to me.
C15_QuoteEndsStringRule ==
  /\ [][(rstep = "scan" /\ scan.i <= Len(ScanInput) /\ scan.inString
           /\ ScanInput[scan.i] = DQ) =>
          LET rest == TrimStart(Slice(ScanInput, scan.i + 1, Len(ScanInput)))
              ends == rest = <<>> \/ rest[1] \in {",", "}", "]", ":"}
          IN scan' = IF ends
                     THEN [i |-> scan.i + 1, inString |-> FALSE,
                           result |-> Append(scan.result, DQ)]
                     ELSE [i |-> scan.i + 1, inString |-> TRUE,
                           result |-> scan.result \o <<BS, DQ>>]]_vars
  /\ []((text = UnescapedQuoteExample /\ Done) =>
          /\ rstep = "returned"
          /\ value = UnescapedQuoteExampleValue
          /\ steps[Len(steps)] = "aggressive")

C15_Witness ==
  /\ text = UnescapedQuoteExample /\ rstep = "returned"
  /\ value = UnescapedQuoteExampleValue
  /\ Len(scan.result) = Len(ScanInput) + 2

\* C16: for a JSON object or array text whose only defect is a trailing
\* comma before its closer (texts the sanitize step leaves as they are),
\* extractJson returns the value of the text without that comma; for
\* {"a": 1, "b": [1,2,],} it returns {a: 1, b: [1, 2]}.
C16_TrailingCommasRemoved ==
  /\ \A w \in ContainerTexts :
       (/\ Sanitize(w) = w
        /\ text \in {SubSeq(w, 1, Len(w) - 1) \o <<",", w[Len(w)]>>,
                     SubSeq(w, 1, Len(w) - 1) \o <<",", " ", w[Len(w)]>>}
        /\ Done) =>
         rstep = "returned" /\ value = JsonParse(w).val
  /\ (text = TrailingCommaExample /\ Done) =>
       rstep = "returned" /\ value = JsonParse(TrailingCommaExampleFixed).val

\* C17: the sanitize step is idempotent: applying it to its own result
\* changes nothing (the result holds no typographic quote, dash or
\* ellipsis and no control character other than tab, CR and newline).
C17_SanitizeIdempotent ==
  rstep \notin {"idle", "start"} =>
    /\ Sanitize(sanitized) = sanitized
    /\ \A i \in DOMAIN sanitized :
         sanitized[i] \notin {LSQ, RSQ, LDQ, RDQ, EMDASH, ENDASH, ELLIPSIS, U0001, BSP, FF}

C17_Witness ==
  /\ text = <<ELLIPSIS, ENDASH>> /\ rstep = "direct"
  /\ sanitized = <<".", ".", ".", "-">>

\* aggressiveJsonFix as a function: the loop run to its end
RECURSIVE RunScan(_, _)
RunScan(json, s) == IF s.i > Len(json) THEN s.result ELSE RunScan(json, ScanStep(json, s))

\* C18: for a text of two sibling objects and no code fence, every text
\* handed to the parser after the direct parse is the slice of the sanitized
\* text from its first '{' to its last '}' or a repair of that slice, and
\* the value of either sibling alone is never returned.
C18_SiblingsOneSlice ==
  \A tr \in SiblingParts :
    text = tr[1] \o tr[2] \o tr[3] =>
      LET slice == Slice(sanitized, IndexOf(sanitized, "{"), LastIndexOf(sanitized, "}"))
      IN /\ \A i \in DOMAIN tried :
              IF i = 1 THEN tried[i] = Trim(sanitized)
              ELSE tried[i] \in {slice, fixCommonJsonIssues(slice), RunScan(slice, ScanStart)}
         /\ rstep = "returned" =>
              /\ value # JsonParse(Sanitize(tr[1])).val
              /\ value # JsonParse(Sanitize(tr[3])).val

C18_Witness ==
  /\ text = SiblingExample /\ rstep = "thrown" /\ tried[2] = text
  /\ steps = <<"direct", "brace", "slice", "fixCommon", "aggressive">>

\* ================================================================ schemas
SetOf(keys) == {keys[n] : n \in DOMAIN keys}

\* a string that names none of the keys, in any case
Unrecognized(v, keys) ==
  /\ v.kind = "string" /\ v.text # <<>>
  /\ \A k \in SetOf(keys) :
       ~TextIncludes([i \in DOMAIN v.text |-> toLowerCase(v.text[i])], toLowerCase(k))

MemberOf(v, set) == v.kind = "string" /\ Len(v.text) = 1 /\ v.text[1] \in set

\* Every other field of the candidate is as its schema wants it.
OtherwiseValid(c) ==
  /\ c.restOk
  /\ c.stakesLevel.kind # "number" /\ c.attachmentStyle.kind # "number"
  /\ c.hasPattern => c.archetype.kind = "string"

\* C19 as stated: a candidate whose enum-like field holds unrecognized free
\* text is accepted, with that field set to a member of its declared set,
\* for each of stakesLevel, archetype, attachmentStyle and the personality
\* traits; and every returned value has each such field in its set.
C19_UnrecognizedEnumCoerced ==
  vstep = "done" =>
    /\ (candidate.schema = "interview" /\ OtherwiseValid(candidate)) =>
         /\ validated.ok
         /\ Unrecognized(candidate.stakesLevel, StakesLevels) =>
              MemberOf(validated.value.stakesLevel, SetOf(StakesLevels))
         /\ (candidate.hasPattern /\ Unrecognized(candidate.archetype, Archetypes)) =>
              MemberOf(validated.value.archetype, SetOf(Archetypes))
         /\ Unrecognized(candidate.attachmentStyle, AttachmentStyles) =>
              MemberOf(validated.value.attachmentStyle, SetOf(AttachmentStyles))
    /\ (candidate.schema = "persona" /\ candidate.restOk /\ candidate.hasPersonality
          /\ \A tr \in Traits : candidate.personality[tr].kind = "string") =>
         /\ validated.ok
         /\ \A tr \in Traits : MemberOf(validated.value.personality[tr], TraitLevels)

\* C19 amended: unrecognized free text in stakesLevel becomes 'medium' and in
\* archetype 'RECKONING', and the candidate is accepted; in attachmentStyle
\* it is accepted and the field is left undefined; a personality trait that
\* is not exactly high, moderate or low makes the persona schema reject the
\* candidate.  In every value a schema returns, stakesLevel and
\* attachmentStyle are undefined or a member of their sets, archetype (when
\* psychologicalPattern is there) is one of the five archetypes, and each
\* personality trait (when personality is there) is high, moderate or low.
C19_EnumFieldsAfterParse ==
  vstep = "done" =>
    /\ (candidate.schema = "interview" /\ OtherwiseValid(candidate)) =>
         /\ validated.ok
         /\ Unrecognized(candidate.stakesLevel, StakesLevels) =>
              validated.value.stakesLevel = StringOf(<<"medium">>)
         /\ (candidate.hasPattern /\ Unrecognized(candidate.archetype, Archetypes)) =>
              validated.value.archetype = StringOf(<<"RECKONING">>)
         /\ Unrecognized(candidate.attachmentStyle, AttachmentStyles) =>
              validated.value.attachmentStyle = Absent
    /\ (candidate.schema = "persona" /\ candidate.hasPersonality
          /\ \E tr \in Traits : ~MemberOf(candidate.personality[tr], TraitLevels)) =>
         ~validated.ok
    /\ validated.ok =>
         LET v == validated.value
         IN /\ v.schema = "interview" =>
                 /\ v.stakesLevel = Absent \/ MemberOf(v.stakesLevel, SetOf(StakesLevels))
                 /\ v.attachmentStyle = Absent
                      \/ MemberOf(v.attachmentStyle, SetOf(AttachmentStyles))
                 /\ v.hasPattern => MemberOf(v.archetype, SetOf(Archetypes))
            /\ (v.schema = "persona" /\ v.hasPersonality) =>
                 \A tr \in Traits : MemberOf(v.personality[tr], TraitLevels)

\* an interview candidate with free text in all three fields has been parsed
C19_Witness ==
  /\ vstep = "done" /\ candidate.schema = "interview" /\ validated.ok
  /\ candidate.stakesLevel = StringOf(<<"unsure", "unsure">>)
  /\ candidate.hasPattern /\ candidate.archetype = StringOf(<<"unsure">>)
  /\ candidate.attachmentStyle = StringOf(<<"unsure">>)
  /\ validated.value.stakesLevel = StringOf(<<"medium">>)

\* ================================================================ webhook
\* the request presents token t in an `Authorization: Bearer <token>` header
PresentsBearer(t) ==
  /\ reqHeaders.authorization.present
  /\ reqHeaders.authorization.scheme = "Bearer "
  /\ reqHeaders.authorization.token = t

\* the request presents token t in an x-openclaw-token header
PresentsCustom(t) == reqHeaders.custom.present /\ reqHeaders.custom.token = t

HasBearer == reqHeaders.authorization.present /\ reqHeaders.authorization.scheme = "Bearer "

\* C20 as stated: with an empty expected token every request is accepted;
\* with a non-empty one a request is accepted exactly when it presents that
\* token in the Bearer header or in the x-openclaw-token header.
C20_AcceptsIffEitherHeader ==
  wstep = "done" =>
    IF expected = EmptyToken THEN verdict
    ELSE verdict <=> (PresentsBearer(expected) \/ PresentsCustom(expected))

\* C20 amended: with an empty expected token every request is accepted; with
\* a non-empty one, a request that has a Bearer authorization header is
\* accepted exactly when that header's token is the expected one (its
\* x-openclaw-token header is then not looked at), and a request without a
\* Bearer header exactly when its x-openclaw-token header is the expected
\* token; a request with no token header is rejected.
C20_BearerTakesPrecedence ==
  wstep = "done" =>
    IF expected = EmptyToken THEN verdict
    ELSE /\ HasBearer => (verdict <=> reqHeaders.authorization.token = expected)
         /\ ~HasBearer => (verdict <=> PresentsCustom(expected))
         /\ (~reqHeaders.authorization.present /\ ~reqHeaders.custom.present) => ~verdict

\* a request with another token as Bearer and the expected token in the
\* custom header has been rejected
C20_Witness ==
  /\ wstep = "done" /\ expected # EmptyToken
  /\ HasBearer /\ reqHeaders.authorization.token # expected
  /\ PresentsCustom(expected)
  /\ ~verdict

\* --------------------------------------------------- chunkTextForWhatsApp
\* C21: chunkTextForWhatsApp(text, limit) with limit >= 1 returns [text]
\* when text.length <= limit, and otherwise two or more chunks, each of
\* length at most limit.
C21_ChunksWithinLimit ==
  cstep = "done" =>
    IF Len(ctext) <= climit
    THEN chunks = <<ctext>>
    ELSE Len(chunks) >= 2 /\ \A n \in DOMAIN chunks : Len(chunks[n]) <= climit

\* the candidates of a text in the order of the code: the sanitized text
\* trimmed, the trimmed interior of the first fenced block when there is
\* one, and, when a '{' is followed by a later '}', the slice between the
\* first '{' and the last '}', its common-issue repair and its aggressive
\* repair
CandidateList(t) ==
  LET san == Sanitize(t)
      block == FenceMatch(san)
      slice == Slice(san, IndexOf(san, "{"), LastIndexOf(san, "}"))
  IN <<Trim(san)>>
       \o (IF block.ok THEN <<Trim(block.inner)>> ELSE <<>>)
       \o (IF NoBracePair(san) THEN <<>>
           ELSE <<slice, fixCommonJsonIssues(slice), RunScan(slice, ScanStart)>>)

FirstParsing(cs) ==
  IF \E i \in DOMAIN cs : JsonParse(cs[i]).ok
  THEN Min({i \in DOMAIN cs : JsonParse(cs[i]).ok}) ELSE 0

\* C22: the texts handed to the parser are, at every moment, a prefix of
\* the candidate list in its fixed order, and none is tried after one has
\* parsed; extractJson returns the value of the first candidate that
\* parses, having tried exactly the candidates up to it, and fails when
\* none parses, having tried them all -- with no '{' followed by a later
\* '}', that is right after the fenced block, the slice and its repairs
\* never tried.
C22_FirstCandidateThatParses ==
  LET cs == CandidateList(text)
      n == FirstParsing(cs)
  IN /\ IsPrefix(tried, cs)
     /\ \A i \in 1..(Len(tried) - 1) : ~JsonParse(tried[i]).ok
     /\ Done =>
          IF n # 0
          THEN rstep = "returned" /\ tried = SubSeq(cs, 1, n) /\ value = JsonParse(cs[n]).val
          ELSE rstep = "thrown" /\ tried = cs /\ value = <<>>
     /\ (Done /\ NoBracePair(text) /\ n = 0) =>
          /\ thrown.kind = "No valid JSON object found"
          /\ steps[Len(steps)] = "brace"
          /\ Len(tried) <= 2

\* the third candidate is the first that parses: the sanitized text and the
\* interior of its fenced block were tried before it and failed, the slice
\* parsed, and neither repair was tried
C22_Witness ==
  /\ rstep = "returned"
  /\ FenceMatch(sanitized).ok
  /\ Len(tried) = 3
  /\ tried[2] = Trim(FenceMatch(sanitized).inner)
  /\ tried[3] = Slice(sanitized, IndexOf(sanitized, "{"), LastIndexOf(sanitized, "}"))
  /\ steps = <<"direct", "fence", "brace", "slice">>

\* the double-quoted strings of a text, in order: a quote opens or closes a
\* string unless an odd number of backslashes stands before it
QuotePositions(t) ==
  {i \in DOMAIN t :
     /\ t[i] = DQ
     /\ Max({n \in 0..(i - 1) : \A m \in 1..n : t[i - m] = BS}) % 2 = 0}

NthOf(S, k) == CHOOSE i \in S : Cardinality({j \in S : j < i}) = k - 1

DoubleQuoted(t) ==
  LET Q == QuotePositions(t)
  IN [k \in 1..(Cardinality(Q) \div 2) |->
        Slice(t, NthOf(Q, 2 * k - 1) + 1, NthOf(Q, 2 * k) - 1)]

\* C23: the common-issue step leaves every character inside an already
\* double-quoted string unchanged, apostrophes included: each double-quoted
\* string of the slice is a double-quoted string of the repaired text.
C23_DoubleQuotedUntouched ==
  (steps # <<>> /\ steps[Len(steps)] = "fixCommon") =>
    LET before == DoubleQuoted(tried[Len(tried) - 1])
        after == DoubleQuoted(tried[Len(tried)])
    IN \A k \in DOMAIN before : \E m \in DOMAIN after : after[m] = before[k]

\* C27: the candidate that the aggressive repair rebuilds is the slice of
\* the sanitized text from its first '{' to its last '}', as it was before
\* the common-issue repair: the text parsed last is the aggressive repair
\* of the third text tried from the end (the slice), whatever the
\* common-issue repair made of it.
C27_AggressiveTakesSlice ==
  (steps # <<>> /\ steps[Len(steps)] = "aggressive") =>
    LET n == Len(tried)
    IN /\ n >= 3
       /\ tried[n - 2] = Slice(sanitized, IndexOf(sanitized, "{"), LastIndexOf(sanitized, "}"))
       /\ tried[n - 1] = fixCommonJsonIssues(tried[n - 2])
       /\ tried[n] = RunScan(tried[n - 2], ScanStart)

\* the common-issue repair changed the slice, and the aggressive repair of
\* its output would have been another text than the one that was parsed
C27_Witness ==
  /\ steps # <<>> /\ steps[Len(steps)] = "aggressive"
  /\ tried[Len(tried) - 1] # tried[Len(tried) - 2]
  /\ tried[Len(tried)] # RunScan(tried[Len(tried) - 1], ScanStart)

\* ============================================================ fork creation
Attempted == forkStatus # "none"

\* C24: the fork row exists with status 'creating' before the pipeline
\* runs; once the creation attempt has finished, for POST /api/forks and for
\* handleForkCreation, the row is 'active' with the pipeline outputs stored
\* if the pipeline and the update succeeded and 'archived' otherwise, never
\* 'creating'; and a row never goes back from 'active' or 'archived' to
\* 'creating'.
C24_ForkLifecycle ==
  /\ [](pc[1] # "start" => Attempted)
  /\ []((fstep = "pipeline" /\ ~Terminal(1)) => forkStatus = "creating")
  /\ []((fstep = "finished" /\ Attempted) =>
          IF pc[1] = "returned" /\ outputsStored
          THEN forkStatus = "active"
          ELSE forkStatus = "archived")
  /\ [][(forkStatus \in {"active", "archived"} => ~(forkStatus' = "creating"))]_vars

\* the event stream of POST /api/forks: one progress event per event that
\* createPersona handed to its sink, then what the handler sent itself
Stream == [i \in DOMAIN events[1] |-> "progress"] \o sse

Outcomes == {<<"result", "done">>, <<"error">>}

\* progress events, then nothing more than one outcome or the start of one
ProgressThenOutcome(s) ==
  \E k \in 0..Len(s) :
    /\ \A i \in 1..k : s[i] = "progress"
    /\ SubSeq(s, k + 1, Len(s)) \in {<<>>, <<"result">>} \cup Outcomes

Lacks(f) == body[f] = "absent"

\* C26: an authenticated request whose body lacks sender, message or
\* platform is answered with status 400, and no user, fork or message is
\* created or changed by it.
C26_MissingFieldsRejected ==
  (verdict /\ hstep = "answered"
     /\ (Lacks("sender") \/ Lacks("message") \/ Lacks("platform"))) =>
    httpStatus = 400 /\ ~userTouched /\ ~dataTouched

\* ======================================================= detectForkType
KeywordHit(keys) == AnyIncluded(Combined(forkPoint), keys)

\* C28: detectForkType returns exactly one of career, relationship,
\* historical and life_decision, decided by the decision and the alternatives
\* alone: career when a career keyword occurs, else relationship when a
\* relationship keyword occurs, else historical when a historical keyword
\* occurs, and life_decision only when no keyword occurs.  The result picks
\* the research task template and nothing else: the steps that compute and
\* use it leave the stages run and the progress events of createPersona as
\* they are.
C28_ForkTypeByPriority ==
  /\ [](dstep # "wait" =>
         /\ forkType \in {"career", "relationship", "historical", "life_decision"}
         /\ forkType = "career" <=> KeywordHit(CareerKeywords)
         /\ forkType = "relationship" <=>
              ~KeywordHit(CareerKeywords) /\ KeywordHit(RelationshipKeywords)
         /\ forkType = "historical" <=>
              /\ ~KeywordHit(CareerKeywords) /\ ~KeywordHit(RelationshipKeywords)
              /\ KeywordHit(HistoricalKeywords)
         /\ forkType = "life_decision" <=>
              ~KeywordHit(CareerKeywords \cup RelationshipKeywords \cup HistoricalKeywords))
  /\ [](dstep = "built" => researchTask.template = forkType)
  /\ [][(forkType' # forkType \/ researchTask' # researchTask) => UNCHANGED pvars]_vars

\* a career keyword and a relationship keyword both occur, and the research
\* stage has gone on to its completed event
C28_Witness ==
  /\ dstep = "built"
  /\ KeywordHit(CareerKeywords) /\ KeywordHit(RelationshipKeywords)
  /\ forkType = "career"
  /\ callStatus[1]["research"] = "returned"

\* ================================================ M2HerClient.chatStream
IsDoneLine(l) == StartsWith(l, DataPrefix) /\ Trim(Slice(l, 7, Len(l))) = DoneMark

\* the lines before the first [DONE] line
BeforeDone(lines) ==
  LET dones == {i \in DOMAIN lines : IsDoneLine(lines[i])}
  IN IF dones = {} THEN lines ELSE SubSeq(lines, 1, Min(dones) - 1)

\* the delta content of a line that starts with `data: ` and parses,
\* Undefined for any other line
ParsedContent(p) == IF p.ok THEN DeltaContent(p.val) ELSE Undefined

ContentOf(l) ==
  IF StartsWith(l, DataPrefix) THEN ParsedContent(JsonParse(Trim(Slice(l, 7, Len(l)))))
  ELSE Undefined

NonEmpty(c) == c \notin {Undefined, <<DQ, DQ>>}

ContentsOf(lines) == SelectSeq([i \in DOMAIN lines |-> ContentOf(lines[i])], NonEmpty)

\* of the whole body: its complete lines, those before [DONE], their contents
ExpectedYields == ContentsOf(BeforeDone(AllButLast(SplitLines(DecodeBytes(streamBody)))))

\* what was yielded against the contents of the whole body
YieldsAre(contents) ==
  /\ IsPrefix(yielded, contents)
  /\ (sstep = "exited" /\ exitBy \in {"end", "done"}) => yielded = contents

\* C29: whatever the reads, chatStream yields, in order, the non-empty
\* delta content of the complete `data: ` lines of the whole body that parse
\* and precede the first `data: [DONE]` line: a prefix of them at any time,
\* all of them once the body ended or [DONE] was met; and no exit leaves
\* the reader lock held.
C29_YieldsIndependentOfReads ==
  /\ YieldsAre(ExpectedYields)
  /\ sstep = "exited" => ~locked

\* after a first content line was yielded, a read ended inside the second
\* one, between the two bytes of a character
C29_Witness ==
  /\ sstep = "reading"
  /\ Len(yielded) = 1
  /\ decoderHeld # <<>>
  /\ StartsWith(buffer, DataPrefix)
  /\ Len(ExpectedYields) = 2

\* ================================== messages.create, messages.createPair
NoCallInProgress == \A c \in DbCalls : msgCalls[c].at \in {"resolved", "rejected"}

RowsOf(c, role) == {i \in DOMAIN rows : rows[i].call = c /\ rows[i].role = role}

\* C30: once no call of messages.create or messages.createPair is in
\* progress, the fork's messageCount is the number of its message rows,
\* lastMessageAt is set exactly when messageCount > 0, and every createPair
\* stored its user message before its alternate_self message.
C30_CountMatchesRows ==
  NoCallInProgress =>
    /\ messageCount = Len(rows)
    /\ lastMessageAt <=> messageCount > 0
    /\ \A c \in DbCalls :
         msgCalls[c].kind = "createPair" =>
           \A j \in RowsOf(c, "alternate_self") : \E i \in RowsOf(c, "user") : i < j

====
